---- MODULE Spec2Model ----
(***************************************************************************)
(* A model of the product extraction engine of final_script.py / fin2.py:  *)
(* the text-blob parser (parse_products_from_text), the normalizer         *)
(* (normalize_row_dict), the table path of run() and the pagination loop   *)
(* (ensure_all_rows_loaded).                                               *)
(*                                                                         *)
(* Text is modelled character by character: a Python str is a sequence of  *)
(* one-character strings ("\n" is the newline; "sup2" stands for the       *)
(* single character U+00B2, a digit for str.isdigit() that int() refuses). *)
(* A Python int is a natural number; a value that is "int or str" (the id  *)
(* of a record) is a tagged record, see IdInt and IdStr.                   *)
(***************************************************************************)
EXTENDS Integers, Sequences, FiniteSets, TLC

(***************************************************************************)
(* Characters and the str methods the program uses.                        *)
(***************************************************************************)
LowerMap ==
    [A |-> "a", B |-> "b", C |-> "c", D |-> "d", E |-> "e", F |-> "f",
     G |-> "g", H |-> "h", I |-> "i", J |-> "j", K |-> "k", L |-> "l",
     M |-> "m", N |-> "n", O |-> "o", P |-> "p", Q |-> "q", R |-> "r",
     S |-> "s", T |-> "t", U |-> "u", V |-> "v", W |-> "w", X |-> "x",
     Y |-> "y", Z |-> "z"]

UpperChars == DOMAIN LowerMap

DecimalChars == {"0", "1", "2", "3", "4", "5", "6", "7", "8", "9"}

\* str.isdigit() accepts more than the decimal digits: U+00B2 is one of them.
DigitChars == DecimalChars \cup {"sup2"}

SpaceChars == {" ", "\n", "\t"}

DigitValue ==
    [c \in DecimalChars |->
        CASE c = "0" -> 0 [] c = "1" -> 1 [] c = "2" -> 2 [] c = "3" -> 3
          [] c = "4" -> 4 [] c = "5" -> 5 [] c = "6" -> 6 [] c = "7" -> 7
          [] c = "8" -> 8 [] c = "9" -> 9]

DigitOf == <<"0", "1", "2", "3", "4", "5", "6", "7", "8", "9">>

char_lower(c) == IF c \in UpperChars THEN LowerMap[c] ELSE c

\* s.lower()
str_lower(s) == [i \in 1..Len(s) |-> char_lower(s[i])]

RECURSIVE FirstNonSpace(_, _)
FirstNonSpace(s, i) ==
    IF i > Len(s) \/ s[i] \notin SpaceChars THEN i ELSE FirstNonSpace(s, i + 1)

RECURSIVE LastNonSpace(_, _)
LastNonSpace(s, i) ==
    IF i < 1 \/ s[i] \notin SpaceChars THEN i ELSE LastNonSpace(s, i - 1)

\* s.lstrip()
str_lstrip(s) == SubSeq(s, FirstNonSpace(s, 1), Len(s))

\* a strip that leaves the trailing whitespace
str_strip_leading_only(s) == SubSeq(s, FirstNonSpace(s, 1), Len(s))

\* s.strip()
str_strip(s) == SubSeq(s, FirstNonSpace(s, 1), LastNonSpace(s, Len(s)))

\* s.startswith(p)
str_startswith(s, p) == Len(p) <= Len(s) /\ SubSeq(s, 1, Len(p)) = p

\* whether p occurs in s at position i
OccursAt(s, p, i) ==
    i + Len(p) - 1 <= Len(s) /\ \A k \in 1..Len(p) : s[i + k - 1] = p[k]

\* p in s
str_contains(s, p) == \E i \in 1..(Len(s) - Len(p) + 1) : OccursAt(s, p, i)

\* s.isdigit()
str_isdigit(s) == Len(s) > 0 /\ \A i \in 1..Len(s) : s[i] \in DigitChars

\* whether int(s) returns for a string s that passed isdigit(): int() raises
\* ValueError on a digit that is not a decimal digit
int_accepts(s) == Len(s) > 0 /\ \A i \in 1..Len(s) : s[i] \in DecimalChars

RECURSIVE int_value(_, _)
int_value(s, n) ==
    IF n = 0 THEN 0 ELSE 10 * int_value(s, n - 1) + DigitValue[s[n]]

\* int(s), for a string of decimal digits
str_to_int(s) == int_value(s, Len(s))

\* str(n), for an int n >= 0
RECURSIVE int_to_str(_)
int_to_str(n) ==
    IF n < 10 THEN <<DigitOf[n + 1]>>
    ELSE Append(int_to_str(n \div 10), DigitOf[(n % 10) + 1])

\* the first ":" of s, or 0
RECURSIVE FindChar(_, _, _)
FindChar(s, c, i) ==
    IF i > Len(s) THEN 0 ELSE IF s[i] = c THEN i ELSE FindChar(s, c, i + 1)

\* s.split(":", 1)[1]
after_colon(s) == SubSeq(s, FindChar(s, ":", 1) + 1, Len(s))

\* blob.splitlines(): the text between consecutive newlines; a final
\* newline opens no further line
str_splitlines(s) ==
    LET nl == {i \in 1..Len(s) : s[i] = "\n"}
        n == Cardinality(nl)
        NlAt(k) == IF k = 0 THEN 0
                   ELSE CHOOSE i \in nl : Cardinality({j \in nl : j <= i}) = k
        count == IF Len(s) = 0 THEN 0
                 ELSE IF s[Len(s)] = "\n" THEN n ELSE n + 1
    IN  [k \in 1..count |->
            SubSeq(s, NlAt(k - 1) + 1, IF k <= n THEN NlAt(k) - 1 ELSE Len(s))]

\* sep.join(parts)
RECURSIVE str_join(_, _)
str_join(sep, parts) ==
    IF Len(parts) = 0 THEN <<>>
    ELSE IF Len(parts) = 1 THEN parts[1]
    ELSE parts[1] \o sep \o str_join(sep, Tail(parts))

\* the stripped non-blank elements of ls from index k on, in order
RECURSIVE SelectLinesFrom(_, _)
SelectLinesFrom(ls, k) ==
    IF k > Len(ls) THEN <<>>
    ELSE LET l == str_strip(ls[k]) IN
         IF l # <<>> THEN <<l>> \o SelectLinesFrom(ls, k + 1)
         ELSE SelectLinesFrom(ls, k + 1)

SelectLines(ls) == SelectLinesFrom(ls, 1)

(***************************************************************************)
(* The id of a record is an int or a str.                                  *)
(***************************************************************************)
IdInt(n) == [kind |-> "int", n |-> n, s |-> <<>>]
IdStr(s) == [kind |-> "str", n |-> 0, s |-> s]

\* an int held as the value of a dict: the mark "int", then str(n)
IntValue(n) ==
    <<"int">> \o (IF n < 0 THEN <<"-">> \o int_to_str(0 - n) ELSE int_to_str(n))

\* isinstance(v, int)
is_int(v) == v # <<>> /\ v[1] = "int"

\* the int such a value holds
int_of(v) ==
    IF v[2] = "-" THEN 0 - str_to_int(SubSeq(v, 3, Len(v))) ELSE str_to_int(Tail(v))

\* Python truth of an id: 0 and "" are false
IdTruthy(v) == IF v.kind = "int" THEN v.n # 0 ELSE v.s # <<>>

\* str(v)
IdToStr(v) == IF v.kind = "int" THEN int_to_str(v.n) ELSE v.s

(***************************************************************************)
(* Regular expressions, as Python's re matches them: a pattern is a        *)
(* sequence of elements, matched left to right with backtracking; a greedy *)
(* repetition tries its longest run first, a lazy one its shortest; the    *)
(* first way to match the whole pattern is the match.  re.DOTALL makes "." *)
(* the class "any"; re.IGNORECASE compares literals in lower case.         *)
(***************************************************************************)
Lit(s) == [t |-> "lit", s |-> s, cls |-> "", min |-> 0, max |-> 0, greedy |-> TRUE, g |-> ""]
Rep(cls, min, max, greedy) ==
    [t |-> "rep", s |-> <<>>, cls |-> cls, min |-> min, max |-> max, greedy |-> greedy, g |-> ""]
Open(g) == [t |-> "open", s |-> <<>>, cls |-> "", min |-> 0, max |-> 0, greedy |-> TRUE, g |-> g]
Close(g) == [t |-> "close", s |-> <<>>, cls |-> "", min |-> 0, max |-> 0, greedy |-> TRUE, g |-> g]

\* \s*  (max -1: no upper limit)
Ws == Rep("space", 0, -1, TRUE)
\* .+?
LazyAny == Rep("any", 1, -1, FALSE)

InClass(c, cls) ==
    CASE cls = "any" -> TRUE
      [] cls = "space" -> c \in SpaceChars
      [] cls = "digit" -> c \in DecimalChars
      [] cls = "cost" -> c \in DecimalChars \cup {",", "."}
      [] cls = "date" -> c \in DecimalChars \cup {"/"}
      [] cls = "total" -> c \in DecimalChars \cup {","}
      [] cls = "upper" -> c \in UpperChars

\* the number of characters of the class from pos on, at most max of them
RECURSIVE RunLen(_, _, _, _)
RunLen(text, pos, cls, max) ==
    IF cls = "any" /\ max < 0 THEN Len(text) - pos + 1
    ELSE IF max = 0 \/ pos > Len(text) \/ ~InClass(text[pos], cls) THEN 0
    ELSE 1 + RunLen(text, pos + 1, cls, IF max < 0 THEN max ELSE max - 1)

LitAt(text, pos, s, ic) ==
    /\ pos + Len(s) - 1 <= Len(text)
    /\ \A k \in 1..Len(s) :
          IF ic THEN char_lower(text[pos + k - 1]) = char_lower(s[k])
          ELSE text[pos + k - 1] = s[k]

NoMatch == [ok |-> FALSE, end |-> 0, caps |-> <<>>]

SetMin(S) == CHOOSE x \in S : \A y \in S : x <= y
SetMax(S) == CHOOSE x \in S : \A y \in S : x >= y

\* A way of matching a prefix of the pattern: where it ends, the groups it has
\* set, and the rank of the choice made at each repetition so far.  Rank 0 is
\* the length backtracking tries first: the longest run of a greedy
\* repetition, the shortest of a lazy one.
re_step(e, ic, text, ways) ==
    CASE e.t = "lit" ->
           {[pos |-> w.pos + Len(e.s), caps |-> w.caps, ch |-> w.ch] :
              w \in {v \in ways : LitAt(text, v.pos, e.s, ic)}}
      [] e.t = "open" ->
           {[pos |-> w.pos, caps |-> [g \in DOMAIN w.caps |-> IF g = e.g THEN <<w.pos, w.pos>> ELSE w.caps[g]],
             ch |-> w.ch] : w \in ways}
      [] e.t = "close" ->
           {[pos |-> w.pos, caps |-> [g \in DOMAIN w.caps |-> IF g = e.g THEN <<w.caps[g][1], w.pos>> ELSE w.caps[g]],
             ch |-> w.ch] : w \in ways}
      [] e.t = "rep" ->
           UNION {LET run == RunLen(text, w.pos, e.cls, e.max) IN
                  {[pos |-> w.pos + n, caps |-> w.caps,
                    ch |-> Append(w.ch, IF e.greedy THEN run - n ELSE n - e.min)] :
                     n \in e.min..run} : w \in ways}

\* every way of matching pattern elements k.. after the given ways
RECURSIVE re_ways(_, _, _, _, _)
re_ways(pat, ic, text, k, ways) ==
    IF k > Len(pat) \/ ways = {} THEN ways
    ELSE re_ways(pat, ic, text, k + 1, re_step(pat[k], ic, text, ways))

\* the order in which backtracking reaches two ways of matching
LexLess(a, b) ==
    \E i \in 1..Len(a) : a[i] < b[i] /\ \A j \in 1..(i - 1) : a[j] = b[j]

\* of all the ways to match, the one backtracking finds first
re_first(ways) ==
    IF ways = {} THEN NoMatch
    ELSE LET w == CHOOSE x \in ways : \A v \in ways : v.ch = x.ch \/ LexLess(x.ch, v.ch)
         IN  [ok |-> TRUE, end |-> w.pos, caps |-> w.caps]

\* pattern elements k.. matched against text from pos on
re_match(pat, ic, text, k, pos, caps) ==
    re_first(re_ways(pat, ic, text, k, {[pos |-> pos, caps |-> caps, ch |-> <<>>]}))

\* the groups of a pattern, none of them matched yet
NoCaps(pat) == [g \in {pat[k].g : k \in {j \in 1..Len(pat) : pat[j].t = "open"}} |-> <<0, 0>>]

\* the match at the least of the positions where the pattern matches
re_leftmost(pat, ic, text, starts) ==
    IF starts = {} THEN NoMatch
    ELSE re_match(pat, ic, text, 1, SetMin(starts), NoCaps(pat))

\* re.search(pattern, text): the leftmost match
re_search(pat, ic, text) ==
    re_leftmost(pat, ic, text,
                {s \in 1..(Len(text) + 1) : re_match(pat, ic, text, 1, s, NoCaps(pat)).ok})

\* m.group(g)
Group(text, caps, g) == SubSeq(text, caps[g][1], caps[g][2] - 1)

(***************************************************************************)
(* parse_products_from_text, pass A: the card pattern.  A match of          *)
(*   (?P<name>.+?)\n(?P<type>.+?)<tail>                                     *)
(* from position pos takes as name the shortest text that ends before a     *)
(* newline after which a type and the tail can still match, and as type     *)
(* the shortest text after that newline that ends where the tail matches;   *)
(* finditer resumes at the end of each match.                               *)
(***************************************************************************)
\* \n\s*\nID:\s*(?P<id>\d+)\s*\n\s*Shade:\s*\n(?P<shade>.+?)\s*\nCost:\s*\n
\* (?P<cost>\$[\d,\.]+)\s*\nManufacturer:\s*\n(?P<manufacturer>.+?)\s*\nSKU:\s*\n
\* (?P<sku>.+?)\s*\nComposition:\s*\n(?P<composition>.+?)\s*\nUpdated:\s*(?P<updated>[\d/]+)
CardTail ==
    << Lit(<<"\n">>), Ws, Lit(<<"\n", "I", "D", ":">>), Ws,
       Open("id"), Rep("digit", 1, -1, TRUE), Close("id"), Ws,
       Lit(<<"\n">>), Ws, Lit(<<"S", "h", "a", "d", "e", ":">>), Ws, Lit(<<"\n">>),
       Open("shade"), LazyAny, Close("shade"), Ws,
       Lit(<<"\n", "C", "o", "s", "t", ":">>), Ws, Lit(<<"\n">>),
       Open("cost"), Lit(<<"$">>), Rep("cost", 1, -1, TRUE), Close("cost"), Ws,
       Lit(<<"\n", "M", "a", "n", "u", "f", "a", "c", "t", "u", "r", "e", "r", ":">>), Ws, Lit(<<"\n">>),
       Open("manufacturer"), LazyAny, Close("manufacturer"), Ws,
       Lit(<<"\n", "S", "K", "U", ":">>), Ws, Lit(<<"\n">>),
       Open("sku"), LazyAny, Close("sku"), Ws,
       Lit(<<"\n", "C", "o", "m", "p", "o", "s", "i", "t", "i", "o", "n", ":">>), Ws, Lit(<<"\n">>),
       Open("composition"), LazyAny, Close("composition"), Ws,
       Lit(<<"\n", "U", "p", "d", "a", "t", "e", "d", ":">>), Ws,
       Open("updated"), Rep("date", 1, -1, TRUE), Close("updated") >>

\* the positions at which the tail of the card pattern matches
TailAnchors(blob) ==
    {q \in 1..Len(blob) :
        blob[q] = "\n" /\ re_match(CardTail, TRUE, blob, 1, q, NoCaps(CardTail)).ok}

\* the item built from one match (the dict of lines 235-245)
card_item(blob, pos, e, q, caps) ==
    LET id == Group(blob, caps, "id") IN
    [product_name |-> str_strip(SubSeq(blob, pos, e - 1)),
     type |-> str_strip(SubSeq(blob, e + 1, q - 1)),
     id |-> IF id # <<>> /\ str_isdigit(id) THEN IdInt(str_to_int(id))
            ELSE IdStr(str_strip(id)),
     shade |-> str_strip(Group(blob, caps, "shade")),
     cost |-> str_strip(Group(blob, caps, "cost")),
     manufacturer |-> str_strip(Group(blob, caps, "manufacturer")),
     sku |-> str_strip(Group(blob, caps, "sku")),
     composition |-> str_strip(Group(blob, caps, "composition")),
     updated |-> str_strip(Group(blob, caps, "updated"))]

\* for m in pattern.finditer(blob): products.append(item).  The name ends at
\* e, the tail matches at q with result r, and the search resumes at its end.
RECURSIVE card_finditer(_, _, _)
card_emit(blob, pos, anchors, e, q, r) ==
    <<card_item(blob, pos, e, q, r.caps)>> \o card_finditer(blob, r.end, anchors)

card_at(blob, pos, anchors, e, q) ==
    card_emit(blob, pos, anchors, e, q,
              re_match(CardTail, TRUE, blob, 1, q, NoCaps(CardTail)))

card_from(blob, pos, anchors, nameEnds) ==
    IF nameEnds = {} THEN <<>>
    ELSE card_at(blob, pos, anchors, SetMin(nameEnds),
                 SetMin({a \in anchors : a >= SetMin(nameEnds) + 2}))

card_finditer(blob, pos, anchors) ==
    card_from(blob, pos, anchors,
              {e \in (pos + 1)..Len(blob) :
                  blob[e] = "\n" /\ \E q \in anchors : q >= e + 2})

pass_a(blob) == card_finditer(blob, 1, TailAnchors(blob))

\* key = str(p.get("sku") or p.get("id") or (p.get("product_name")+"|"+p.get("type")))
key_a(p) ==
    IF p.sku # <<>> THEN p.sku
    ELSE IF IdTruthy(p.id) THEN IdToStr(p.id)
    ELSE p.product_name \o <<"|">> \o p.type

\* the dedupe loop of pass A (lines 250-258)
RECURSIVE dedup_a(_, _, _)
dedup_a(products, seen, dedup) ==
    IF products = <<>> THEN dedup
    ELSE LET p == Head(products) key == key_a(p) IN
         IF key \in seen THEN dedup_a(Tail(products), seen, dedup)
         ELSE dedup_a(Tail(products), seen \cup {key}, Append(dedup, p))

(***************************************************************************)
(* parse_products_from_text, pass B: the line scan.  Indices are Python's  *)
(* (from 0).                                                               *)
(***************************************************************************)
categories ==
    {<<"b", "e", "a", "u", "t", "y">>,
     <<"a", "u", "t", "o", "m", "o", "t", "i", "v", "e">>,
     <<"t", "o", "y", "s">>,
     <<"b", "o", "o", "k", "s">>,
     <<"h", "o", "m", "e", " ", "&", " ", "k", "i", "t", "c", "h", "e", "n">>,
     <<"g", "a", "r", "d", "e", "n">>,
     <<"o", "f", "f", "i", "c", "e">>,
     <<"h", "e", "a", "l", "t", "h">>,
     <<"c", "l", "o", "t", "h", "i", "n", "g">>,
     <<"e", "l", "e", "c", "t", "r", "o", "n", "i", "c", "s">>,
     <<"h", "o", "m", "e">>,
     <<"k", "i", "t", "c", "h", "e", "n">>}

header_noise ==
    {<<"i", "d", "e", "n", " ", "c", "h", "a", "l", "l", "e", "n", "g", "e">>,
     <<"c", "a", "n", "d", "i", "d", "a", "t", "e">>,
     <<"i", "n", "s", "t", "r", "u", "c", "t", "i", "o", "n", "s">>,
     <<"s", "u", "b", "m", "i", "t", " ", "s", "o", "l", "u", "t", "i", "o", "n">>,
     <<"s", "i", "g", "n", " ", "o", "u", "t">>,
     <<"p", "r", "o", "d", "u", "c", "t", " ", "d", "a", "s", "h", "b", "o", "a", "r", "d">>,
     <<"a", "s", "s", "e", "s", "s", "m", "e", "n", "t", " ", "i", "d">>,
     <<"s", "h", "o", "w", "i", "n", "g">>,
     <<"l", "a", "y", "o", "u", "t", ":">>}

\* [ln.strip() for ln in blob.splitlines() if ln.strip()]
blob_lines(blob) == SelectLines(str_splitlines(blob))

At(lines, i) == lines[i + 1]

\* re.search(r"[A-Z]{2,4}-\d{3,}-\d+", l)
SkuPattern ==
    << Rep("upper", 2, 4, TRUE), Lit(<<"-">>), Rep("digit", 3, -1, TRUE),
       Lit(<<"-">>), Rep("digit", 1, -1, TRUE) >>

\* l.split(":", 1)[1].strip() if ":" in l else (lines[j+1] if j+1 < len(lines) else "")
labeled_value(lines, j) ==
    LET l == At(lines, j) IN
    IF FindChar(l, ":", 1) # 0 THEN str_strip(after_colon(l))
    ELSE IF j + 1 < Len(lines) THEN At(lines, j + 1) ELSE <<>>

EmptyProd(name, typ) ==
    [product_name |-> name, type |-> typ, id |-> IdStr(<<>>), shade |-> <<>>,
     cost |-> <<>>, manufacturer |-> <<>>, sku |-> <<>>, composition |-> <<>>,
     updated |-> <<>>]

\* if "$" in l and not prod["cost"]: prod["cost"] = l  (lines 308-310)
cost_heuristic(l, prod) ==
    IF FindChar(l, "$", 1) # 0 /\ prod.cost = <<>> THEN [prod EXCEPT !.cost = l] ELSE prod

\* if re.search(...) and not prod["sku"]: prod["sku"] = l  (lines 311-312)
sku_heuristic(l, prod) ==
    IF re_search(SkuPattern, FALSE, l).ok /\ prod.sku = <<>>
    THEN [prod EXCEPT !.sku = l] ELSE prod

\* one turn of the inner loop (lines 290-313): the record after line j; exc is
\* the exception int() raises, if any
scan_line(lines, j, prod) ==
    LET l == At(lines, j)
        low == str_lower(l)
    IN  IF str_startswith(low, <<"i", "d", ":">>)
        THEN LET val == str_strip(after_colon(l)) IN
             IF str_isdigit(val)
             THEN IF int_accepts(val)
                  THEN [prod |-> [prod EXCEPT !.id = IdInt(str_to_int(val))], exc |-> ""]
                  ELSE [prod |-> prod, exc |-> "ValueError"]
             ELSE [prod |-> [prod EXCEPT !.id = IdStr(val)], exc |-> ""]
        ELSE IF str_startswith(low, <<"s", "h", "a", "d", "e">>)
        THEN [prod |-> [prod EXCEPT !.shade = labeled_value(lines, j)], exc |-> ""]
        ELSE IF str_startswith(low, <<"c", "o", "s", "t">>)
        THEN [prod |-> [prod EXCEPT !.cost = labeled_value(lines, j)], exc |-> ""]
        ELSE IF str_startswith(low, <<"m", "a", "n", "u", "f", "a", "c", "t", "u", "r", "e", "r">>)
        THEN [prod |-> [prod EXCEPT !.manufacturer = labeled_value(lines, j)], exc |-> ""]
        ELSE IF str_startswith(low, <<"s", "k", "u">>)
        THEN [prod |-> [prod EXCEPT !.sku = labeled_value(lines, j)], exc |-> ""]
        ELSE IF str_startswith(low, <<"c", "o", "m", "p", "o", "s", "i", "t", "i", "o", "n">>)
        THEN [prod |-> [prod EXCEPT !.composition = labeled_value(lines, j)], exc |-> ""]
        ELSE IF str_startswith(low, <<"u", "p", "d", "a", "t", "e", "d">>)
        THEN [prod |-> [prod EXCEPT !.updated = labeled_value(lines, j)], exc |-> ""]
        ELSE [prod |-> sku_heuristic(l, cost_heuristic(l, prod)), exc |-> ""]

\* while j < len(lines) and j < i + 12 (lines 289-314); r is what the turn
\* for line j made of the record
RECURSIVE scan_fields(_, _, _, _)
scan_fields_next(lines, i, j, prod, r) ==
    IF r.exc # "" THEN [prod |-> prod, j |-> j, exc |-> r.exc]
    ELSE scan_fields(lines, i, j + 1, r.prod)

\* the inner loop with a forward scan of 11 lines
scan_fields_wide(lines, i, j, prod) ==
    IF j < Len(lines) /\ j < i + 13
    THEN scan_fields_next(lines, i, j, prod, scan_line(lines, j, prod))
    ELSE [prod |-> prod, j |-> j, exc |-> ""]

scan_fields(lines, i, j, prod) ==
    IF j < Len(lines) /\ j < i + 12
    THEN scan_fields_next(lines, i, j, prod, scan_line(lines, j, prod))
    ELSE [prod |-> prod, j |-> j, exc |-> ""]

\* the test of line 275 without its look at header_noise
is_boundary_any_name(lines, i) == str_lower(At(lines, i + 1)) \in categories

\* typ.lower() in categories and not any(h in name.lower() for h in header_noise)
is_boundary(lines, i) ==
    /\ str_lower(At(lines, i + 1)) \in categories
    /\ ~\E h \in header_noise : str_contains(str_lower(At(lines, i)), h)

\* products.append(prod); i = j  (lines 315-316), r being what the inner loop left
scan_append(i, products, r) ==
    IF r.exc # "" THEN [i |-> i, products |-> products, exc |-> r.exc]
    ELSE [i |-> r.j, products |-> Append(products, r.prod), exc |-> ""]

\* one turn of the outer loop (lines 272-318), for i < len(lines) - 1
scan_step(lines, i, products) ==
    IF is_boundary(lines, i)
    THEN scan_append(i, products,
                     scan_fields(lines, i, i + 2, EmptyProd(At(lines, i), At(lines, i + 1))))
    ELSE [i |-> i + 1, products |-> products, exc |-> ""]

\* key = p.get("sku") or f"{p.get('product_name')}|{p.get('type')}"
key_b(p) == IF p.sku # <<>> THEN p.sku ELSE p.product_name \o <<"|">> \o p.type

\* for k in p: if isinstance(p[k], str): p[k] = p[k].strip()
strip_fields(p) ==
    [product_name |-> str_strip(p.product_name), type |-> str_strip(p.type),
     id |-> IF p.id.kind = "str" THEN IdStr(str_strip(p.id.s)) ELSE p.id,
     shade |-> str_strip(p.shade), cost |-> str_strip(p.cost),
     manufacturer |-> str_strip(p.manufacturer), sku |-> str_strip(p.sku),
     composition |-> str_strip(p.composition), updated |-> str_strip(p.updated)]

\* the final dedupe (lines 321-333)
RECURSIVE dedup_b(_, _, _)
dedup_b(products, seen, dedup) ==
    IF products = <<>> THEN dedup
    ELSE LET p == Head(products) key == key_b(p) IN
         IF key \in seen THEN dedup_b(Tail(products), seen, dedup)
         ELSE dedup_b(Tail(products), seen \cup {key}, Append(dedup, strip_fields(p)))

\* the whole line scan (lines 271-318); r is what one turn made of i and products
RECURSIVE pass_b_loop(_, _, _)
pass_b_next(lines, products, r) ==
    IF r.exc # "" THEN [products |-> products, exc |-> r.exc]
    ELSE pass_b_loop(lines, r.i, r.products)

pass_b_loop(lines, i, products) ==
    IF i < Len(lines) - 1
    THEN pass_b_next(lines, products, scan_step(lines, i, products))
    ELSE [products |-> products, exc |-> ""]

\* lines 320-333 after the scan r
pass_b_result(r) ==
    IF r.exc # "" THEN [value |-> <<>>, exc |-> r.exc]
    ELSE [value |-> dedup_b(r.products, {}, <<>>), exc |-> ""]

\* lines 248-258 if pass A found products, else pass B
parse_result(blob, products) ==
    IF products # <<>> THEN [value |-> dedup_a(products, {}, <<>>), exc |-> ""]
    ELSE pass_b_result(pass_b_loop(blob_lines(blob), 0, <<>>))

\* parse_products_from_text(blob): the list returned, or the exception raised
parse_products_from_text(blob) == parse_result(blob, pass_a(blob))

(***************************************************************************)
(* normalize_row_dict.  A raw row (a Python dict) is a sequence of         *)
(* <<key, value>> pairs in insertion order, its keys distinct.             *)
(***************************************************************************)
\* the first key, in d.keys() order from ki on, that satisfies the exact test
\* for candidate c: k and k.strip().lower() == c.lower()
RECURSIVE exact_key(_, _, _)
exact_key(d, c, ki) ==
    IF ki > Len(d) THEN 0
    ELSE IF d[ki][1] # <<>> /\ str_lower(str_strip(d[ki][1])) = str_lower(c) THEN ki
    ELSE exact_key(d, c, ki + 1)

\* ... that satisfies the fallback test: c.lower() in k.strip().lower()
\* no key ever satisfies the fallback test
containing_key_never(d, c, ki) == 0

RECURSIVE containing_key(_, _, _)
containing_key(d, c, ki) ==
    IF ki > Len(d) THEN 0
    ELSE IF str_contains(str_lower(str_strip(d[ki][1])), str_lower(c)) THEN ki
    ELSE containing_key(d, c, ki + 1)

RECURSIVE first_exact(_, _, _)
first_exact(d, candidates, ci) ==
    IF ci > Len(candidates) THEN 0
    ELSE IF exact_key(d, candidates[ci], 1) # 0 THEN exact_key(d, candidates[ci], 1)
    ELSE first_exact(d, candidates, ci + 1)

RECURSIVE first_containing(_, _, _)
first_containing(d, candidates, ci) ==
    IF ci > Len(candidates) THEN 0
    ELSE IF containing_key(d, candidates[ci], 1) # 0
         THEN containing_key(d, candidates[ci], 1)
    ELSE first_containing(d, candidates, ci + 1)

\* one loop over the candidates that takes, for each, an equal key or else a
\* key that contains it
RECURSIVE first_either(_, _, _)
first_either(d, candidates, ci) ==
    IF ci > Len(candidates) THEN 0
    ELSE IF exact_key(d, candidates[ci], 1) # 0 THEN exact_key(d, candidates[ci], 1)
    ELSE IF containing_key(d, candidates[ci], 1) # 0
         THEN containing_key(d, candidates[ci], 1)
    ELSE first_either(d, candidates, ci + 1)

get_any_in_one_loop(d, candidates) ==
    IF first_either(d, candidates, 1) # 0 THEN d[first_either(d, candidates, 1)][2]
    ELSE <<>>

\* get_any(d, candidates) (lines 354-364)
get_any(d, candidates) ==
    IF first_exact(d, candidates, 1) # 0 THEN d[first_exact(d, candidates, 1)][2]
    ELSE IF first_containing(d, candidates, 1) # 0
         THEN d[first_containing(d, candidates, 1)][2]
    ELSE <<>>

aliases ==
    [product_name |-> <<<<"p", "r", "o", "d", "u", "c", "t", " ", "n", "a", "m", "e">>, <<"n", "a", "m", "e">>, <<"p", "r", "o", "d", "u", "c", "t">>, <<"t", "i", "t", "l", "e">>>>,
     type |-> <<<<"t", "y", "p", "e">>, <<"c", "a", "t", "e", "g", "o", "r", "y">>>>,
     id |-> <<<<"i", "d">>, <<"I", "D">>>>,
     shade |-> <<<<"s", "h", "a", "d", "e">>, <<"c", "o", "l", "o", "r">>>>,
     cost |-> <<<<"c", "o", "s", "t">>, <<"p", "r", "i", "c", "e">>>>,
     manufacturer |-> <<<<"m", "a", "n", "u", "f", "a", "c", "t", "u", "r", "e", "r">>, <<"m", "a", "k", "e", "r">>, <<"b", "r", "a", "n", "d">>>>,
     sku |-> <<<<"s", "k", "u">>, <<"S", "K", "U">>>>,
     composition |-> <<<<"c", "o", "m", "p", "o", "s", "i", "t", "i", "o", "n">>, <<"m", "a", "t", "e", "r", "i", "a", "l">>>>,
     updated |-> <<<<"u", "p", "d", "a", "t", "e", "d">>, <<"l", "a", "s", "t", " ", "u", "p", "d", "a", "t", "e", "d">>, <<"m", "o", "d", "i", "f", "i", "e", "d">>>>]

\* normalize_row_dict(raw): the record returned, or the exception raised by
\* int(out_id) when str(out_id).isdigit() holds of a string int() refuses
normalize_row_dict(raw) ==
    LET out_id == get_any(raw, aliases.id) IN
    IF str_isdigit(out_id) /\ ~int_accepts(out_id)
    THEN [value |-> <<>>, exc |-> "ValueError"]
    ELSE [value |->
            [product_name |-> str_strip(get_any(raw, aliases.product_name)),
             type |-> str_strip(get_any(raw, aliases.type)),
             id |-> IF is_int(out_id) THEN IdInt(int_of(out_id))
                    ELSE IF str_isdigit(out_id) THEN IdInt(str_to_int(out_id))
                    ELSE IdStr(str_strip(out_id)),
             shade |-> str_strip(get_any(raw, aliases.shade)),
             cost |-> str_strip(get_any(raw, aliases.cost)),
             manufacturer |-> str_strip(get_any(raw, aliases.manufacturer)),
             sku |-> str_strip(get_any(raw, aliases.sku)),
             composition |-> str_strip(get_any(raw, aliases.composition)),
             updated |-> str_strip(get_any(raw, aliases.updated))],
          exc |-> ""]

(***************************************************************************)
(* extract_table_to_list.  A table of the page is a record                 *)
(*   head: "thead" (a thead row of th cells), "th_row" (no thead, the      *)
(*         first tr holds th cells) or "none" (no th cell at all),         *)
(*   headers: the texts of the th cells,                                   *)
(*   has_tbody: whether the rows lie in a tbody,                           *)
(*   rows: the data rows, each the texts of its td cells,                  *)
(*   fault: which lookup on the table raises: "none", "thead" (the one of  *)
(*         line 188) or "lookup" (one of lines 193-214).                   *)
(* The locators of the function are read off it.                           *)
(***************************************************************************)
\* table_locator.locator("thead tr th").all_text_contents()
\* (should it raise, line 190 leaves headers empty)
thead_th(t) == IF t.head = "thead" /\ t.fault # "thead" THEN t.headers ELSE <<>>

\* table_locator.locator("tr").first.locator("th")
first_row_th(t) == IF t.head = "none" THEN <<>> ELSE t.headers

\* table_locator.locator("tr"): the td texts of every tr (a header row has none)
all_tr(t) == (IF t.head = "none" THEN <<>> ELSE << <<>> >>) \o t.rows

\* table_locator.locator("tbody tr"): a th row outside a thead lies in the tbody
body_rows(t) ==
    IF ~t.has_tbody THEN <<>>
    ELSE (IF t.head = "th_row" THEN << <<>> >> ELSE <<>>) \o t.rows

\* d[k] = v on a dict: a key already present keeps its place
RECURSIVE dict_set(_, _, _)
dict_set(d, k, v) ==
    IF d = <<>> THEN << <<k, v>> >>
    ELSE IF Head(d)[1] = k THEN << <<k, v>> >> \o Tail(d)
    ELSE << Head(d) >> \o dict_set(Tail(d), k, v)

\* f"col{j}"
col_name(j) == <<"c", "o", "l">> \o int_to_str(j)

\* [f"col{j}" for j in range(len(cells))]
generic_headers(cells) == [j \in 1..Len(cells) |-> col_name(j - 1)]

\* {headers[j].strip() if j < len(headers) else f"col{j}": cells[j].strip() for j in range(len(cells))}
RECURSIVE row_item(_, _, _, _)
row_item(headers, cells, j, item) ==
    IF j >= Len(cells) THEN item
    ELSE row_item(headers, cells, j + 1,
                  dict_set(item,
                           IF j < Len(headers) THEN str_strip(headers[j + 1]) ELSE col_name(j),
                           str_strip(cells[j + 1])))

\* the row loops (lines 203-209 and 211-218): headers are synthesized from
\* the first row met while there are none
RECURSIVE rows_to_items(_, _, _)
rows_to_items(trs, headers, rows) ==
    IF trs = <<>> THEN rows
    ELSE LET cells == Head(trs)
             hs == IF headers = <<>> THEN generic_headers(cells) ELSE headers
         IN  rows_to_items(Tail(trs), hs, Append(rows, row_item(hs, cells, 0, <<>>)))

extract_table_to_list(t) ==
    LET h1 == thead_th(t)
        headers == IF h1 = <<>> /\ Len(first_row_th(t)) > 0 THEN first_row_th(t) ELSE h1
    IN  IF Len(body_rows(t)) = 0
        THEN rows_to_items(IF all_tr(t) = <<>> THEN <<>> ELSE Tail(all_tr(t)), headers, <<>>)
        ELSE rows_to_items(body_rows(t), headers, <<>>)

(***************************************************************************)
(* The state.  Each part of the program that is checked has its own        *)
(* variables (n_: normalize_row_dict, t_: parse_products_from_text,        *)
(* r_: the extraction stage of run, l_: ensure_all_rows_loaded,            *)
(* m_: merge_and_persist_storage_state, a_: the session stage of run) and  *)
(* its own specification, which leaves the other variables alone.          *)
(***************************************************************************)
VARIABLES
    n_pc,        \* normalize_row_dict: "call", "returned" or "raised"
    n_raw,       \* its argument
    n_out,       \* what it returned
    t_pc,        \* parse_products_from_text: "pass_a", "dedup_a", "scan", "returned", "raised"
    t_input,     \* what the blob was rendered from
    t_blob,      \* its argument
    t_lines,     \* lines (line 270)
    t_i,         \* i (line 271)
    t_products,  \* products
    t_result,    \* the list returned
    t_pass,      \* the pass that returned it: "A" or "B"
    r_pc,        \* run: "find_table", "extract", "write", "done" or "raised"
    r_page,      \* the page the browser shows after the product view is opened
    r_table_locator, \* table_locator: whether a table was chosen
    r_loop_called,   \* whether ensure_all_rows_loaded was called
    r_final_products, \* final_products
    r_output,    \* the list written to OUTPUT_PATH, once it is written
    r_collected, \* what the call of paginate_and_collect gave, once it is made
    l_pc,        \* ensure_all_rows_loaded: "init", "head", "click", "links", "scroll", "evaluate", "done"
    l_body,      \* the body text of the page, if it can be read
    l_expected_total, \* expected_total
    l_elapsed,   \* (time.time() - start) * 1000 as the loop test reads it
    l_last_count, \* last_count
    l_stable,    \* stable
    l_clicked,   \* clicked
    l_k,         \* the index of txt in the list of line 127
    l_exit,      \* how the function ended: "total", "stable", "timeout" or "raised"
    l_hist,      \* the values of new_count measured so far (history)
    l_clicks,    \* the clicks that succeeded in this iteration
    l_action,    \* the last action of this iteration: "", "text", "link" or "scroll"
    l_waits,     \* what was awaited after it: "quiet_pause", "quiet_raised", "pause" or "pause_raised"
    m_pc,        \* merge_and_persist_storage_state: "call", "merged" or "remerged"
    m_prev,      \* the file at path before the first call
    m_fresh,     \* what context.storage_state() returns
    m_file,      \* the file at path
    m_first,     \* the file as the first call left it
    m_warned,    \* whether the last call ended in the handler of line 719
    a_pc,        \* run: "start", "reuse", "context", "login", "extract", "done" or "raised"
    a_env,       \* which of the url, the username and the password the environment has
    a_file,      \* the file STORAGE_STATE
    a_context,   \* context: "none", "stored" or "fresh"
    a_open,      \* the number of browser contexts that are open
    a_browser,   \* whether the browser is open
    a_output,    \* whether this run wrote OUTPUT_PATH
    a_exc,       \* the error that left run(), "" if none
    a_runs       \* the number of runs of the program started so far

normVars == <<n_pc, n_raw, n_out>>
textVars == <<t_pc, t_input, t_blob, t_lines, t_i, t_products, t_result, t_pass>>
runVars == <<r_pc, r_page, r_table_locator, r_loop_called, r_final_products, r_output,
            r_collected>>
loopVars == <<l_pc, l_body, l_expected_total, l_elapsed, l_last_count, l_stable,
              l_clicked, l_k, l_exit, l_hist, l_clicks, l_action, l_waits>>
mergeVars == <<m_pc, m_prev, m_fresh, m_file, m_first, m_warned>>
authVars == <<a_pc, a_env, a_file, a_context, a_open, a_browser, a_output, a_exc, a_runs>>
vars == <<normVars, textVars, runVars, loopVars, mergeVars, authVars>>

CanonicalKeys ==
    {"product_name", "type", "id", "shade", "cost", "manufacturer", "sku",
     "composition", "updated"}

(***************************************************************************)
(* normalize_row_dict on the raw rows of at most MaxRawKeys keys.          *)
(***************************************************************************)
MaxRawKeys == 2

RawKeys == {<<"i", "d">>, <<" ", "I", "D", " ">>, <<"P", "r", "o", "d", "u", "c", "t", " ", "N", "a", "m", "e">>, <<"s", "k", "u">>, <<"g", "r", "i", "d">>}
RawValues == {<<>>, <<"4", "2">>, <<" ", "4", "2", " ">>, <<"sup2">>, <<" ", "x", " ">>}

\* the dicts of n keys: sequences of pairs with distinct keys
RECURSIVE RawRowsOf(_)
RawRowsOf(n) ==
    IF n = 0 THEN {<<>>}
    ELSE {Append(d, <<k, v>>) :
            d \in RawRowsOf(n - 1),
            k \in RawKeys, v \in RawValues} 

DistinctKeys(d) == \A i, j \in 1..Len(d) : i # j => d[i][1] # d[j][1]

\* the dicts of at most max keys
RawRows(max) == {d \in UNION {RawRowsOf(n) : n \in 0..max} : DistinctKeys(d)}

\* the nine keys of a record in the order of lines 341-351, each with its text
CanonicalOrder ==
    << <<"product_name", <<"p", "r", "o", "d", "u", "c", "t", "_", "n", "a", "m", "e">>>>, <<"type", <<"t", "y", "p", "e">>>>, <<"id", <<"i", "d">>>>,
       <<"shade", <<"s", "h", "a", "d", "e">>>>, <<"cost", <<"c", "o", "s", "t">>>>, <<"manufacturer", <<"m", "a", "n", "u", "f", "a", "c", "t", "u", "r", "e", "r">>>>,
       <<"sku", <<"s", "k", "u">>>>, <<"composition", <<"c", "o", "m", "p", "o", "s", "i", "t", "i", "o", "n">>>>, <<"updated", <<"u", "p", "d", "a", "t", "e", "d">>>> >>

BackwardOrder == [i \in 1..Len(CanonicalOrder) |-> CanonicalOrder[Len(CanonicalOrder) + 1 - i]]

\* records as normalize_row_dict returns them, the id held as a dict holds it
CanonicalChoices ==
    [product_name : {<<>>, <<"A", " ", "b">>}, type : {<<>>, <<"t">>},
     id : {IntValue(0), IntValue(42), IntValue(0 - 5), <<>>, <<"x", "1">>, <<"sup2">>},
     shade : {<<"r", "e", "d">>}, cost : {<<>>, <<"$", "1">>}, manufacturer : {<<"m">>},
     sku : {<<>>, <<"S", "-", "1">>}, composition : {<<"c">>}, updated : {<<"1", "/", "2">>}]

\* the dict that holds the fields of rec under their own names, in this order
canonical_row(rec, order) == [i \in 1..Len(order) |-> <<order[i][2], rec[order[i][1]]>>]

CanonicalRows ==
    {canonical_row(rec, order) : rec \in CanonicalChoices,
                                 order \in {CanonicalOrder, BackwardOrder}}

\* rows of two keys that match the aliases of product_name in different ways
AliasKeys == {<<"n", "a", "m", "e", "s">>, <<"t", "i", "t", "l", "e">>, <<"p", "r", "o", "d", "u", "c", "t">>, <<" ", "N", "a", "m", "e", " ">>}
AliasRows ==
    {<< <<row[1], <<"v", "1">>>>, <<row[2], <<"v", "2">>>> >> :
        row \in {r \in AliasKeys \X AliasKeys : r[1] # r[2]}}

NormInit ==
    /\ n_pc = "call" /\ n_raw \in RawRows(MaxRawKeys) \cup CanonicalRows \cup AliasRows /\ n_out = <<>>
    \* the other operations are not running
    /\ t_pc = "idle" /\ t_input = <<>> /\ t_blob = <<>> /\ t_lines = <<>>
    /\ t_i = 0 /\ t_products = <<>> /\ t_result = <<>> /\ t_pass = ""
    /\ r_pc = "idle" /\ r_page = <<>> /\ r_table_locator = FALSE
    /\ r_loop_called = FALSE /\ r_final_products = <<>> /\ r_output = <<>>
    /\ r_collected = <<>>
    /\ l_pc = "idle" /\ l_body = <<>> /\ l_expected_total = <<>> /\ l_elapsed = 0
    /\ l_last_count = 0 /\ l_stable = 0 /\ l_clicked = FALSE /\ l_k = 0
    /\ l_exit = "" /\ l_hist = <<>> /\ l_clicks = 0 /\ l_action = "" /\ l_waits = ""
    /\ m_pc = "idle" /\ m_prev = <<>> /\ m_fresh = <<>> /\ m_file = <<>>
    /\ m_first = <<>> /\ m_warned = FALSE
    /\ a_pc = "idle" /\ a_env = <<>> /\ a_file = <<>> /\ a_context = "none"
    /\ a_open = 0 /\ a_browser = FALSE /\ a_output = FALSE /\ a_exc = "" /\ a_runs = 0

\* normalize_row_dict(n_raw) returns or raises
n_normalize ==
    /\ n_pc = "call"
    /\ n_out' = normalize_row_dict(n_raw)
    /\ n_pc' = IF normalize_row_dict(n_raw).exc = "" THEN "returned" ELSE "raised"
    /\ UNCHANGED <<n_raw, textVars, runVars, loopVars, mergeVars, authVars>>

(***************************************************************************)
(* parse_products_from_text on blobs rendered from cards.                  *)
(***************************************************************************)
MaxCardsA == 2
MaxCardsB == 3

VelvetBlob ==
    <<"V", "e", "l", "v", "e", "t", " ", "M", "a", "t", "t", "e", " ", "L",
      "i", "p", "s", "t", "i", "c", "k", "\n", "b", "e", "a", "u", "t",
      "y", "\n", "I", "D", ":", " ", "1", "0", "4", "2", "\n", "S", "h",
      "a", "d", "e", ":", "\n", "C", "r", "i", "m", "s", "o", "n", "\n",
      "C", "o", "s", "t", ":", "\n", "$", "1", "8", ".", "5", "0", "\n",
      "M", "a", "n", "u", "f", "a", "c", "t", "u", "r", "e", "r", ":",
      "\n", "G", "l", "o", "w", "C", "o", "\n", "S", "K", "U", ":", "\n",
      "G", "L", "W", "-", "1", "0", "4", "2", "-", "3", "\n", "C", "o",
      "m", "p", "o", "s", "i", "t", "i", "o", "n", ":", "\n", "W", "a",
      "x", "/", "P", "i", "g", "m", "e", "n", "t", "\n", "U", "p", "d",
      "a", "t", "e", "d", ":", " ", "0", "3", "/", "1", "4", "/", "2", "0",
      "2", "4">>

NameChoices == {<<"a">>, <<"b">>}
TypeOf(name) == IF name = <<"a">> THEN <<"b", "e", "a", "u", "t", "y">> ELSE <<"t", "o", "y", "s">>

\* a card in the layout of the pass A grammar
RenderA(c) ==
    << c.name, TypeOf(c.name), <<>>, <<"I", "D", ":", " ">> \o c.id, <<"S", "h", "a", "d", "e", ":">>, <<"r", "e", "d">>,
       <<"C", "o", "s", "t", ":">>, <<"$", "1">>, <<"M", "a", "n", "u", "f", "a", "c", "t", "u", "r", "e", "r", ":">>, <<"m">>, <<"S", "K", "U", ":">>, c.sku,
       <<"C", "o", "m", "p", "o", "s", "i", "t", "i", "o", "n", ":">>, <<"c">>, <<"U", "p", "d", "a", "t", "e", "d", ":", " ", "1", "/", "2">> >>

\* a card with its labels and values on one line, 12 lines long
RenderB(c) ==
    << c.name, TypeOf(c.name), <<"I", "D", ":", " ">> \o c.id,
       IF c.sku = <<>> THEN <<"-">> ELSE <<"S", "K", "U", ":", " ">> \o c.sku,
       <<"-">>, <<"-">>, <<"-">>, <<"-">>, <<"-">>, <<"-">>, <<"-">>, <<"-">> >>

\* a card of three or four lines: name, category, ID and, if it has one, SKU
RenderS(c) ==
    << c.name, TypeOf(c.name), <<"I", "D", ":", " ">> \o c.id >>
    \o (IF c.sku = <<>> THEN <<>> ELSE << <<"S", "K", "U", ":", " ">> \o c.sku >>)

\* a card of 14 lines whose label 'Shade' stands without colon on the last
\* line that the forward scan visits (line i + 11), its value on the line after
RenderW(c) ==
    << c.name, TypeOf(c.name), <<"I", "D", ":", " ">> \o c.id,
       IF c.sku = <<>> THEN <<"-">> ELSE <<"S", "K", "U", ":", " ">> \o c.sku,
       <<"-">>, <<"-">>, <<"-">>, <<"-">>, <<"-">>, <<"-">>, <<"-">>, <<"S", "h", "a", "d", "e">>, <<"r", "e", "d">>, <<"-">> >>

\* a card whose last line is the label 'Shade' without colon and without value
RenderT(c) ==
    << c.name, TypeOf(c.name), <<"I", "D", ":", " ">> \o c.id >>
    \o (IF c.sku = <<>> THEN <<>> ELSE << <<"S", "K", "U", ":", " ">> \o c.sku >>) \o << <<"S", "h", "a", "d", "e">> >>

\* a card with each value on the line after its label
RenderC(c) ==
    << c.name, TypeOf(c.name), <<"I", "D", ":", " ">> \o c.id, <<"S", "h", "a", "d", "e", ":">>, <<"r", "e", "d">>, <<"C", "o", "s", "t", ":">>,
       <<"$", "1">>, <<"M", "a", "n", "u", "f", "a", "c", "t", "u", "r", "e", "r", ":">>, <<"m">>, <<"S", "K", "U", ":">>, c.sku, <<"C", "o", "m", "p", "o", "s", "i", "t", "i", "o", "n", ":">>,
       <<"c">>, <<"U", "p", "d", "a", "t", "e", "d", ":", " ", "1", "/", "2">> >>

RenderCard(kind, c) ==
    str_join(<<"\n">>,
             CASE kind = "A" -> RenderA(c) [] kind = "B" -> RenderB(c) [] kind = "C" -> RenderC(c)
                  [] kind = "S" -> RenderS(c) [] kind = "W" -> RenderW(c)
                  [] kind = "T" -> RenderT(c))

Render(in) ==
    IF in.kind = "literal" THEN VelvetBlob
    ELSE (IF in.hdr THEN <<"h", "d", "r", "\n">> ELSE <<>>)
         \o str_join(in.sep, [k \in 1..Len(in.cards) |-> RenderCard(in.kind, in.cards[k])])

RECURSIVE SeqsOf(_, _)
SeqsOf(S, n) == IF n = 0 THEN {<<>>} ELSE {Append(q, x) : q \in SeqsOf(S, n - 1), x \in S}

CardsA == [name : NameChoices, id : {<<"7">>, <<"8">>}, sku : {<<"S", "1">>, <<"S", "2">>, <<" ">>}]
CardsB == [name : NameChoices, id : {<<"7">>, <<"8">>, <<"sup2">>}, sku : {<<>>, <<"S", "1">>, <<"a", "|", "b", "e", "a", "u", "t", "y">>}]
\* cards without an ID value, with and without a SKU
CardsE == [name : NameChoices, id : {<<>>}, sku : {<<>>, <<"a", "|", "b", "e", "a", "u", "t", "y">>}]
\* the cards that stand around page chrome
CardsN == [name : NameChoices, id : {<<"7">>}, sku : {<<>>, <<"S", "1">>}]
\* text of the page between two cards: a line and a category line under it
ChromeSeps ==
    {<<"\n">> \o <<"S", "h", "o", "w", "i", "n", "g", " ", "2", "4", " ", "o", "f", " ", "1", "8", "0", " ", "p", "r", "o", "d", "u", "c", "t", "s">> \o <<"\n">> \o <<"e", "l", "e", "c", "t", "r", "o", "n", "i", "c", "s">> \o <<"\n">>,
     <<"\n">> \o <<"S", "I", "G", "N", " ", "O", "U", "T">> \o <<"\n">> \o <<"T", "o", "y", "s">> \o <<"\n">>,
     <<"\n">> \o <<"G", "r", "i", "d", " ", "L", "a", "y", "o", "u", "t", ":", " ", "4">> \o <<"\n">> \o <<"h", "o", "m", "e", " ", "&", " ", "k", "i", "t", "c", "h", "e", "n">> \o <<"\n">>,
     <<"\n">> \o <<"F", "e", "a", "t", "u", "r", "e", "d">> \o <<"\n">> \o <<"e", "l", "e", "c", "t", "r", "o", "n", "i", "c", "s">> \o <<"\n">>}
CardsC == [name : NameChoices, id : {<<"7">>}, sku : {<<"A", "B", "-", "1", "2", "3", "-", "4">>}]

\* the blobs: the literal example, at most maxA cards in the layout of the
\* pass A grammar, at most maxB cards in each layout that pass B reads, and
\* two cards with page chrome between them, two short cards, and one card
\* with a label that has no colon at the end of the scan or of the blob
TextInputs(maxA, maxB) ==
    {[kind |-> "literal", cards |-> <<>>, sep |-> <<>>, hdr |-> FALSE]}
    \cup [kind : {"A"}, cards : UNION {SeqsOf(CardsA, n) : n \in 1..maxA},
          sep : {<<"\n">>, <<"\n", "\n">>}, hdr : BOOLEAN]
    \cup [kind : {"B"}, cards : UNION {SeqsOf(CardsB, n) \cup SeqsOf(CardsE, n) : n \in 1..maxB},
          sep : {<<"\n">>}, hdr : {FALSE}]
    \cup [kind : {"B"}, cards : SeqsOf(CardsN, 2), sep : ChromeSeps, hdr : {FALSE}]
    \cup [kind : {"S"}, cards : SeqsOf(CardsN, 2), sep : {<<"\n">>}, hdr : {FALSE}]
    \cup [kind : {"W", "T"}, cards : SeqsOf(CardsN, 1), sep : {<<"\n">>}, hdr : {FALSE}]
    \cup [kind : {"C"}, cards : SeqsOf(CardsC, 1), sep : {<<"\n">>}, hdr : {FALSE}]

TextInit ==
    /\ t_pc = "pass_a"
    /\ t_input \in TextInputs(MaxCardsA, MaxCardsB)
    /\ t_blob = Render(t_input)
    /\ t_lines = <<>> /\ t_i = 0 /\ t_products = <<>> /\ t_result = <<>> /\ t_pass = ""
    \* the other operations are not running
    /\ n_pc = "idle" /\ n_raw = <<>> /\ n_out = <<>>
    /\ r_pc = "idle" /\ r_page = <<>> /\ r_table_locator = FALSE
    /\ r_loop_called = FALSE /\ r_final_products = <<>> /\ r_output = <<>>
    /\ r_collected = <<>>
    /\ l_pc = "idle" /\ l_body = <<>> /\ l_expected_total = <<>> /\ l_elapsed = 0
    /\ l_last_count = 0 /\ l_stable = 0 /\ l_clicked = FALSE /\ l_k = 0
    /\ l_exit = "" /\ l_hist = <<>> /\ l_clicks = 0 /\ l_action = "" /\ l_waits = ""
    /\ m_pc = "idle" /\ m_prev = <<>> /\ m_fresh = <<>> /\ m_file = <<>>
    /\ m_first = <<>> /\ m_warned = FALSE
    /\ a_pc = "idle" /\ a_env = <<>> /\ a_file = <<>> /\ a_context = "none"
    /\ a_open = 0 /\ a_browser = FALSE /\ a_output = FALSE /\ a_exc = "" /\ a_runs = 0

\* the blobs of at most max cards without page chrome between the cards
MaxCardsFair == 1
FairInputs(max) == {in \in TextInputs(max, max) : in.sep \notin ChromeSeps}

\* the state at line 272, lines 227-271 done, for a blob in which pass A has
\* found no card
ScanInit ==
    /\ t_pc = "scan"
    /\ t_input \in FairInputs(MaxCardsFair)
    /\ t_blob = Render(t_input)
    /\ pass_a(t_blob) = <<>>
    /\ t_lines = blob_lines(t_blob) /\ t_i = 0 /\ t_products = <<>> /\ t_result = <<>> /\ t_pass = ""
    \* the other operations are not running
    /\ n_pc = "idle" /\ n_raw = <<>> /\ n_out = <<>>
    /\ r_pc = "idle" /\ r_page = <<>> /\ r_table_locator = FALSE
    /\ r_loop_called = FALSE /\ r_final_products = <<>> /\ r_output = <<>>
    /\ r_collected = <<>>
    /\ l_pc = "idle" /\ l_body = <<>> /\ l_expected_total = <<>> /\ l_elapsed = 0
    /\ l_last_count = 0 /\ l_stable = 0 /\ l_clicked = FALSE /\ l_k = 0
    /\ l_exit = "" /\ l_hist = <<>> /\ l_clicks = 0 /\ l_action = "" /\ l_waits = ""
    /\ m_pc = "idle" /\ m_prev = <<>> /\ m_fresh = <<>> /\ m_file = <<>>
    /\ m_first = <<>> /\ m_warned = FALSE
    /\ a_pc = "idle" /\ a_env = <<>> /\ a_file = <<>> /\ a_context = "none"
    /\ a_open = 0 /\ a_browser = FALSE /\ a_output = FALSE /\ a_exc = "" /\ a_runs = 0

\* lines 227-246 (and 270-271 when no card matched)
t_pass_a_found(products) ==
    /\ t_products' = products
    /\ t_pc' = IF products # <<>> THEN "dedup_a" ELSE "scan"
    /\ t_lines' = IF products # <<>> THEN <<>> ELSE blob_lines(t_blob)

t_pass_a ==
    /\ t_pc = "pass_a"
    /\ t_pass_a_found(pass_a(t_blob))
    /\ t_i' = 0
    /\ UNCHANGED <<t_input, t_blob, t_result, t_pass, normVars, runVars, loopVars, mergeVars, authVars>>

\* lines 248-258
t_dedup_a ==
    /\ t_pc = "dedup_a"
    /\ t_result' = dedup_a(t_products, {}, <<>>)
    /\ t_pass' = "A"
    /\ t_pc' = "returned"
    /\ UNCHANGED <<t_input, t_blob, t_lines, t_i, t_products, normVars, runVars, loopVars, mergeVars, authVars>>

\* one turn of the while loop of lines 272-318
t_scan_turn(r) ==
    /\ t_i' = r.i
    /\ t_products' = r.products
    /\ t_pc' = IF r.exc = "" THEN "scan" ELSE "raised"

t_scan_step ==
    /\ t_pc = "scan"
    /\ t_i < Len(t_lines) - 1
    /\ t_scan_turn(scan_step(t_lines, t_i, t_products))
    /\ UNCHANGED <<t_input, t_blob, t_lines, t_result, t_pass, normVars, runVars, loopVars, mergeVars, authVars>>

\* lines 320-333, once the while loop has ended
t_dedup_b ==
    /\ t_pc = "scan"
    /\ ~(t_i < Len(t_lines) - 1)
    /\ t_result' = dedup_b(t_products, {}, <<>>)
    /\ t_pass' = "B"
    /\ t_pc' = "returned"
    /\ UNCHANGED <<t_input, t_blob, t_lines, t_i, t_products, normVars, runVars, loopVars, mergeVars, authVars>>

TextNext == t_pass_a \/ t_dedup_a \/ t_scan_step \/ t_dedup_b

\* the line scan alone
ScanNext == t_scan_step \/ t_dedup_b
(***************************************************************************)
(* run(), step 5 (lines 583-677): the page shows either one table or no    *)
(* table; blocks are the texts of the div, section and article elements    *)
(* that the filter of line 630 keeps, body is the text of the whole page.  *)
(***************************************************************************)
MaxTableRows == 2

TableHeaders == <<<<"P", "r", "o", "d", "u", "c", "t", " ", "N", "a", "m", "e">>, <<"S", "K", "U">>>>
TableRows ==
    {<<<<"a">>, <<"S", "1">>>>, <<<<"b">>, <<"S", "1">>>>, <<<<"b">>, <<"S", "2">>>>, <<<<" ", "a", " ">>, <<>>>>,
     <<<<"b">>, <<"S", "2">>, <<"x">>>>, <<<<"a">>, <<"t">>, <<"7">>, <<"r", "e", "d">>, <<"$", "1">>>>}

\* tables whose thead has two blank header cells, or the one header 'col1'
OddHeaderTables ==
    [head : {"thead"}, headers : {<<<<>>, <<>>>>, <<<<"c", "o", "l", "1">>>>}, has_tbody : {TRUE},
     rows : {<< <<<<"a">>, <<"S", "1">>>> >>}, fault : {"none"}]

\* the tables of at most max data rows
Tables(max) ==
    [head : {"thead", "th_row", "none"}, headers : {TableHeaders}, has_tbody : BOOLEAN,
     rows : UNION {SeqsOf(TableRows, n) : n \in 1..max}, fault : {"none", "thead", "lookup"}]
    \cup OddHeaderTables

CardOne == RenderCard("A", [name |-> <<"a">>, id |-> <<"7">>, sku |-> <<"S", "1">>])
CardTwo == RenderCard("A", [name |-> <<"b">>, id |-> <<"8">>, sku |-> <<"S", "2">>])
PageHeader == <<"I", "d", "e", "n", " ", "C", "h", "a", "l", "l", "e", "n", "g", "e", "\n", "P", "r", "o", "d", "u", "c", "t", " ", "I", "n", "v", "e", "n", "t", "o", "r", "y", "\n", "S", "h", "o", "w", "i", "n", "g", " ", "1", " ", "o", "f", " ", "1", " ", "p", "r", "o", "d", "u", "c", "t", "s", "\n">>

\* a region of n + 21 characters for a name of n
SmallBlock(name) == name \o <<"\n", "b", "e", "a", "u", "t", "y", "\n", "I", "D", ":", " ", "7", "\n", "S", "K", "U", ":", " ", "S", "1">>
\* names of 18, 19 and 20 characters
BlockNames == {<<"V", "e", "l", "v", "e", "t", " ", "M", "a", "t", "t", "e", " ", "L", "i", "p", "s", "t">>, <<"V", "e", "l", "v", "e", "t", " ", "M", "a", "t", "t", "e", " ", "L", "i", "p", "s", "t", "i">>, <<"V", "e", "l", "v", "e", "t", " ", "M", "a", "t", "t", "e", " ", "L", "i", "p", "s", "t", "i", "c">>}

CardPages ==
    {[kind |-> "cards", table |-> <<>>, blocks |-> <<SmallBlock(n)>>, body |-> <<"S", "i", "g", "n", " ", "o", "u", "t">>] :
        n \in BlockNames} \cup
    {[kind |-> "cards", table |-> <<>>, blocks |-> <<CardOne>>, body |-> <<>>],
     [kind |-> "cards", table |-> <<>>, blocks |-> <<CardOne, CardTwo>>, body |-> <<>>],
     [kind |-> "cards", table |-> <<>>, blocks |-> <<<<" ", "S", "K", "U", ":", " ", "1", " ">>>>, body |-> PageHeader \o CardTwo],
     [kind |-> "cards", table |-> <<>>, blocks |-> <<>>, body |-> CardOne]}

RunPages(max) ==
    [kind : {"table"}, table : Tables(max), blocks : {<<>>}, body : {<<>>}] \cup CardPages

\* txt = elems.nth(i).inner_text().strip(); if len(txt) > 40: blocks.append(txt)
long_blocks(texts) ==
    SelectSeq([k \in 1..Len(texts) |-> str_strip(texts[k])], LAMBDA txt : Len(txt) > 40)

\* if not blocks: blocks = [page_text]  (lines 637-639)
blocks_or_body(blocks, body) == IF blocks = <<>> THEN <<body>> ELSE blocks

\* blob = "\n\n".join(blocks)  (line 641)
page_blob(page) == str_join(<<"\n", "\n">>, blocks_or_body(long_blocks(page.blocks), page.body))

\* Iden Challenge.*?Product Inventory\s*.*?Showing\s*\d+\s*of\s*\d+\s*products
HeaderPattern ==
    << Lit(<<"I", "d", "e", "n", " ", "C", "h", "a", "l", "l", "e", "n", "g", "e">>), Rep("any", 0, -1, FALSE), Lit(<<"P", "r", "o", "d", "u", "c", "t", " ", "I", "n", "v", "e", "n", "t", "o", "r", "y">>), Ws,
       Rep("any", 0, -1, FALSE), Lit(<<"S", "h", "o", "w", "i", "n", "g">>), Ws, Rep("digit", 1, -1, TRUE), Ws,
       Lit(<<"o", "f">>), Ws, Rep("digit", 1, -1, TRUE), Ws, Lit(<<"p", "r", "o", "d", "u", "c", "t", "s">>) >>

\* if m: blob = blob[m.end():].lstrip()  (lines 648-650)
after_header(blob, m) ==
    IF m.ok THEN str_lstrip(SubSeq(blob, m.end, Len(blob))) ELSE blob

strip_header(blob) == after_header(blob, re_search(HeaderPattern, TRUE, blob))

\* if k == "id" and str(v).isdigit(): v = int(v)  (lines 660-661)
required_raises(p) == str_isdigit(IdToStr(p.id)) /\ ~int_accepts(IdToStr(p.id))

required_fields(p) ==
    [p EXCEPT !.id = IF str_isdigit(IdToStr(p.id)) THEN IdInt(str_to_int(IdToStr(p.id)))
                     ELSE p.id]

\* lines 653-663 on what parse_products_from_text returned or raised
required_all(r) ==
    IF r.exc # "" THEN [value |-> <<>>, exc |-> r.exc]
    ELSE IF \E k \in 1..Len(r.value) : required_raises(r.value[k])
    THEN [value |-> <<>>, exc |-> "ValueError"]
    ELSE [value |-> [k \in 1..Len(r.value) |-> required_fields(r.value[k])], exc |-> ""]

\* lines 623-663
text_products(page) == required_all(parse_products_from_text(strip_header(page_blob(page))))

\* lines 669-673
normalize_all(products) ==
    IF \E k \in 1..Len(products) : normalize_row_dict(products[k]).exc # ""
    THEN [value |-> <<>>, exc |-> "ValueError"]
    ELSE [value |-> [k \in 1..Len(products) |-> normalize_row_dict(products[k]).value],
          exc |-> ""]

\* a lookup of lines 193-214 that raises leaves extract_table_to_list, which
\* has a handler for the lookup of line 188 alone
extract_raises(t) == t.fault = "lookup"

\* lines 666-673: nothing catches what line 668 raises
table_products(t) ==
    IF extract_raises(t) THEN [value |-> <<>>, exc |-> "Error"]
    ELSE normalize_all(extract_table_to_list(t))

RunInit ==
    /\ r_pc = "find_table"
    /\ r_page \in RunPages(MaxTableRows)
    /\ r_table_locator = FALSE /\ r_loop_called = FALSE
    /\ r_final_products = <<>> /\ r_output = <<>>
    /\ r_collected = <<>>
    \* the other operations are not running
    /\ n_pc = "idle" /\ n_raw = <<>> /\ n_out = <<>>
    /\ t_pc = "idle" /\ t_input = <<>> /\ t_blob = <<>> /\ t_lines = <<>>
    /\ t_i = 0 /\ t_products = <<>> /\ t_result = <<>> /\ t_pass = ""
    /\ l_pc = "idle" /\ l_body = <<>> /\ l_expected_total = <<>> /\ l_elapsed = 0
    /\ l_last_count = 0 /\ l_stable = 0 /\ l_clicked = FALSE /\ l_k = 0
    /\ l_exit = "" /\ l_hist = <<>> /\ l_clicks = 0 /\ l_action = "" /\ l_waits = ""
    /\ m_pc = "idle" /\ m_prev = <<>> /\ m_fresh = <<>> /\ m_file = <<>>
    /\ m_first = <<>> /\ m_warned = FALSE
    /\ a_pc = "idle" /\ a_env = <<>> /\ a_file = <<>> /\ a_context = "none"
    /\ a_open = 0 /\ a_browser = FALSE /\ a_output = FALSE /\ a_exc = "" /\ a_runs = 0

\* what the call of line 605 gives: the file defines no paginate_and_collect,
\* so the call raises NameError; a definition from elsewhere returns a list of
\* normalized records, empty or not
paginate_and_collect ==
    {[exc |-> "NameError", value |-> <<>>],
     [exc |-> "", value |-> <<>>],
     [exc |-> "", value |-> <<normalize_row_dict(<< <<<<"s", "k", "u">>, <<"S", "9">>>> >>).value>>]}

\* lines 583-621.  With a table on the page wait_for_selector returns, the
\* table is chosen (the only one: the test of line 597 decides between several)
\* and the call of paginate_and_collect, a name the file does not define,
\* raises NameError, which line 609 catches; what the call returns would be
\* bound to final_products (lines 606-608), and line 621 empties
\* final_products in every case.  With no table wait_for_selector times out
\* and ensure_all_rows_loaded runs, its exceptions caught (lines 612-617).
r_find_table ==
    /\ r_pc = "find_table"
    /\ r_collected' \in (IF r_page.kind = "table" THEN paginate_and_collect ELSE {<<>>})
    /\ r_table_locator' = (r_page.kind = "table")
    /\ r_loop_called' = (r_page.kind # "table")
    /\ r_final_products' = <<>>
    /\ r_pc' = "extract"
    /\ UNCHANGED <<r_page, r_output, normVars, textVars, loopVars, mergeVars, authVars>>

\* what the extraction made of the page becomes final_products, or the
\* exception leaves run()
r_extracted(res) ==
    /\ r_final_products' = res.value
    /\ r_pc' = IF res.exc = "" THEN "write" ELSE "raised"

\* lines 623-663: no table was chosen
r_extract_text ==
    /\ r_pc = "extract"
    /\ ~r_table_locator
    /\ r_extracted(text_products(r_page))
    /\ UNCHANGED <<r_page, r_table_locator, r_loop_called, r_output, r_collected, normVars, textVars, loopVars, mergeVars, authVars>>

\* lines 664-673: a table was chosen and final_products is empty
r_extract_table ==
    /\ r_pc = "extract"
    /\ r_table_locator
    /\ r_final_products = <<>>
    /\ r_extracted(table_products(r_page.table))
    /\ UNCHANGED <<r_page, r_table_locator, r_loop_called, r_output, r_collected, normVars, textVars, loopVars, mergeVars, authVars>>

\* line 677
r_write ==
    /\ r_pc = "write"
    /\ r_output' = r_final_products
    /\ r_pc' = "done"
    /\ UNCHANGED <<r_page, r_table_locator, r_loop_called, r_final_products, r_collected,
                   normVars, textVars, loopVars, mergeVars, authVars>>

RunNext == r_find_table \/ r_extract_text \/ r_extract_table \/ r_write

(***************************************************************************)
(* ensure_all_rows_loaded (lines 99-183).  Time is read in milliseconds;   *)
(* between two readings of the clock by the loop test at least TickMs      *)
(* pass.  The rows on the page are whatever the page makes of the clicks   *)
(* and scrolls: every count_rows() returns a number from 0 to MaxRows.     *)
(***************************************************************************)
timeout_ms == 120000
max_stable == 3
MaxRows == 2
TickMs == 24000

\* expected_total: None, or an int
NoTotal == [known |-> FALSE, n |-> 0]
Total(n) == [known |-> TRUE, n |-> n]

\* the truth of expected_total in "if expected_total and ..." (line 171)
total_truthy(t) == t.known /\ t.n # 0

\* of\s+([0-9,]{2,})  (line 117)
TotalPattern ==
    << Lit(<<"o", "f">>), Rep("space", 1, -1, TRUE),
       Open("total"), Rep("total", 2, -1, TRUE), Close("total") >>

\* s.replace(",", "")
without_commas(s) == SelectSeq(s, LAMBDA c : c # ",")

\* int(...) of line 119; the ValueError of a text without digits is caught by line 120
parse_total(s) == IF int_accepts(s) THEN Total(str_to_int(s)) ELSE NoTotal

total_of_match(text, m) ==
    IF m.ok THEN parse_total(without_commas(Group(text, m.caps, "total"))) ELSE NoTotal

\* lines 114-121; body.ok is whether page.inner_text("body") returned
read_total(body) ==
    IF body.ok THEN total_of_match(body.text, re_search(TotalPattern, TRUE, body.text))
    ELSE NoTotal

LoopBodies ==
    {[ok |-> FALSE, text |-> <<>>],
     [ok |-> TRUE, text |-> <<"x">>],
     [ok |-> TRUE, text |-> <<"1", " ", "o", "f", " ", "0", "2">>],
     [ok |-> TRUE, text |-> <<"0", " ", "O", "f", " ", "0", ",">>],
     [ok |-> TRUE, text |-> <<"o", "f", " ", "8">>],
     [ok |-> TRUE, text |-> <<"S", "h", "o", "w", "i", "n", "g", " ", "1", "-", "2", "0", " ", "o", "f", " ", "2", ",", "8", "5", "0">>],
     [ok |-> TRUE, text |-> <<"o", "f", " ", "2", " ", "o", "f", " ", "2", "4">>],
     [ok |-> TRUE, text |-> <<"o", "f", " ", ",", ",">>]}

\* ["Next", "next", ">", "»", "→", "More", "Load more"]  (line 127)
click_texts == <<"Next", "next", ">", "raquo", "rarr", "More", "Load more">>

\* lines 174-178: stable after a measurement
next_stable_reset_missing(new_count, last_count, stable) == stable + 1

next_stable(new_count, last_count, stable) ==
    IF new_count = last_count THEN stable + 1 ELSE 0

\* lines 174-178: last_count after a measurement
next_last_count(new_count, last_count) ==
    IF new_count = last_count THEN last_count ELSE new_count

LoopInit ==
    /\ l_pc = "init"
    /\ l_body \in LoopBodies
    /\ l_expected_total = NoTotal
    /\ l_elapsed = 0
    /\ l_last_count = -1
    /\ l_stable = 0
    /\ l_clicked = FALSE
    /\ l_k = 0
    /\ l_exit = ""
    /\ l_hist = <<>>
    /\ l_clicks = 0
    /\ l_action = ""
    /\ l_waits = ""
    \* the other operations are not running
    /\ n_pc = "idle" /\ n_raw = <<>> /\ n_out = <<>>
    /\ t_pc = "idle" /\ t_input = <<>> /\ t_blob = <<>> /\ t_lines = <<>>
    /\ t_i = 0 /\ t_products = <<>> /\ t_result = <<>> /\ t_pass = ""
    /\ r_pc = "idle" /\ r_page = <<>> /\ r_table_locator = FALSE
    /\ r_loop_called = FALSE /\ r_final_products = <<>> /\ r_output = <<>>
    /\ r_collected = <<>>
    /\ m_pc = "idle" /\ m_prev = <<>> /\ m_fresh = <<>> /\ m_file = <<>>
    /\ m_first = <<>> /\ m_warned = FALSE
    /\ a_pc = "idle" /\ a_env = <<>> /\ a_file = <<>> /\ a_context = "none"
    /\ a_open = 0 /\ a_browser = FALSE /\ a_output = FALSE /\ a_exc = "" /\ a_runs = 0

\* lines 100-121
l_read_total ==
    /\ l_pc = "init"
    /\ l_expected_total' = read_total(l_body)
    /\ l_pc' = "head"
    /\ UNCHANGED <<l_body, l_elapsed, l_last_count, l_stable, l_clicked, l_k, l_exit,
                   l_hist, l_clicks, l_action, l_waits,
                   normVars, textVars, runVars, mergeVars, authVars>>

\* line 123, then lines 124-126 (curr is not read again) or line 183
l_loop_test ==
    /\ l_pc = "head"
    /\ IF l_elapsed < timeout_ms
       THEN /\ l_pc' = "click" /\ l_k' = 1 /\ l_clicked' = FALSE /\ l_exit' = l_exit
            /\ l_clicks' = 0 /\ l_action' = "" /\ l_waits' = ""
       ELSE /\ l_pc' = "done" /\ l_exit' = "timeout"
            /\ UNCHANGED <<l_k, l_clicked, l_clicks, l_action, l_waits>>
    /\ UNCHANGED <<l_body, l_expected_total, l_elapsed, l_last_count, l_stable, l_hist,
                   normVars, textVars, runVars, mergeVars, authVars>>

\* where the for loop of line 127 goes on after txt number k did not end it
after_text(k, clicked) ==
    IF k < Len(click_texts) THEN "click"
    ELSE IF clicked THEN "evaluate" ELSE "links"

\* what was awaited after a click: page.wait_for_load_state("networkidle")
\* raised ("quiet_raised"), or it returned and page.wait_for_timeout raised
\* ("pause_raised"), or both returned ("quiet_pause")
click_waits(outcome, waits) ==
    IF outcome = "clicked" THEN {"quiet_pause"}
    ELSE IF outcome \in {"clicked_wait_raised", "raised_after_click"}
    THEN {"quiet_raised", "pause_raised"}
    ELSE {waits}

\* one turn of the for loop (lines 127-135): try_click_by_text returns false
\* or None; or it returns True and both waits return (break); or it returns
\* True and a wait raises (continue, with clicked already True)
l_click_text ==
    /\ l_pc = "click"
    /\ \E outcome \in {"no_click", "clicked", "clicked_wait_raised"} :
         /\ l_clicked' = (l_clicked \/ outcome # "no_click")
         /\ l_pc' = IF outcome = "clicked" THEN "evaluate"
                    ELSE after_text(l_k, l_clicked \/ outcome # "no_click")
         /\ l_k' = IF outcome # "clicked" /\ l_k < Len(click_texts) THEN l_k + 1 ELSE l_k
         /\ l_clicks' = IF outcome = "no_click" THEN l_clicks ELSE l_clicks + 1
         /\ l_action' = IF outcome = "no_click" THEN l_action ELSE "text"
         /\ l_waits' \in click_waits(outcome, l_waits)
    /\ UNCHANGED <<l_body, l_expected_total, l_elapsed, l_last_count, l_stable, l_exit,
                   l_hist, normVars, textVars, runVars, mergeVars, authVars>>

\* lines 137-152, reached with clicked False: no link matches; or one is
\* clicked and the waits return; or an exception is caught before or after
\* the click
l_click_links ==
    /\ l_pc = "links"
    /\ \E outcome \in {"no_link", "clicked", "raised_before_click", "raised_after_click"} :
         /\ l_clicked' = (outcome \in {"clicked", "raised_after_click"})
         /\ l_pc' = IF outcome \in {"clicked", "raised_after_click"} THEN "evaluate"
                    ELSE "scroll"
         /\ l_clicks' = IF l_clicked' THEN l_clicks + 1 ELSE l_clicks
         /\ l_action' = IF l_clicked' THEN "link" ELSE l_action
         /\ l_waits' \in click_waits(outcome, l_waits)
    /\ UNCHANGED <<l_body, l_expected_total, l_elapsed, l_last_count, l_stable, l_k,
                   l_exit, l_hist, normVars, textVars, runVars, mergeVars, authVars>>

\* lines 154-167, reached with clicked False: the scroll is tried, its
\* exception caught; then page.wait_for_timeout of line 167 alone is
\* awaited, and it is in no try block
l_scroll ==
    /\ l_pc = "scroll"
    /\ \E pause_raises \in BOOLEAN :
         /\ l_pc' = IF pause_raises THEN "done" ELSE "evaluate"
         /\ l_exit' = IF pause_raises THEN "raised" ELSE l_exit
         /\ l_waits' = IF pause_raises THEN "pause_raised" ELSE "pause"
    /\ l_action' = "scroll"
    /\ UNCHANGED <<l_body, l_expected_total, l_elapsed, l_last_count, l_stable,
                   l_clicked, l_k, l_hist, l_clicks, normVars, textVars, runVars, mergeVars, authVars>>

\* lines 169-181 with new_count measured; when the loop goes on, the clock
\* stands at now when line 123 reads it
l_evaluated(new_count, now) ==
    /\ l_hist' = Append(l_hist, new_count)
    /\ IF total_truthy(l_expected_total) /\ new_count >= l_expected_total.n
       THEN /\ l_pc' = "done" /\ l_exit' = "total"
            /\ UNCHANGED <<l_last_count, l_stable, l_elapsed>>
       ELSE /\ l_stable' = next_stable(new_count, l_last_count, l_stable)
            /\ l_last_count' = next_last_count(new_count, l_last_count)
            /\ IF next_stable(new_count, l_last_count, l_stable) >= max_stable
               THEN l_pc' = "done" /\ l_exit' = "stable" /\ l_elapsed' = l_elapsed
               ELSE l_pc' = "head" /\ l_exit' = l_exit /\ l_elapsed' = now

l_evaluate ==
    /\ l_pc = "evaluate"
    /\ \E new_count \in 0..MaxRows, ticks \in 1..2 :
         l_evaluated(new_count, l_elapsed + ticks * TickMs)
    /\ UNCHANGED <<l_body, l_expected_total, l_clicked, l_k, l_clicks, l_action, l_waits,
                   normVars, textVars, runVars, mergeVars, authVars>>

LoopNext ==
    l_read_total \/ l_loop_test \/ l_click_text \/ l_click_links \/ l_scroll \/ l_evaluate


(***************************************************************************)
(* merge_and_persist_storage_state (lines 683-721).  The file at path is   *)
(* absent, holds text that is not JSON, or holds a JSON value; a JSON      *)
(* value is null, an array or an object, whose "cookies" and "origins"     *)
(* members are missing, null or a list.  A cookie is a record with name,   *)
(* domain, path and value, an origin entry a record with origin and value. *)
(***************************************************************************)
MaxCookies == 2

Absent == [kind |-> "absent"]
NotJson == [kind |-> "text"]
Json(v) == [kind |-> "json", value |-> v]

Missing == [t |-> "missing"]
Null == [t |-> "null"]
Array == [t |-> "array"]
List(items) == [t |-> "list", items |-> items]
Object(cookies, origins) == [t |-> "object", cookies |-> cookies, origins |-> origins]

Cookie(name, domain, value) ==
    [name |-> name, domain |-> domain, path |-> "/", value |-> value]
Origin(origin, value) == [origin |-> origin, value |-> value]

CookieChoices ==
    {Cookie("A", "d1", 1), Cookie("B", "d2", 1), Cookie("B", "d2", 2),
     Cookie("C", "d3", 1), Cookie("B", "d1", 1)}

OriginChoices ==
    {<<>>, <<Origin("o1", 1)>>, <<Origin("o1", 2)>>, <<Origin("o2", 1)>>,
     <<Origin("o1", 1), Origin("o1", 2)>>}

CookieLists(max) == UNION {[1..n -> CookieChoices] : n \in 0..max}

\* what context.storage_state() returns
FreshStates(max) == [cookies : CookieLists(max), origins : OriginChoices]

\* the files a snapshot was persisted to
SnapshotFiles(max) ==
    {Json(Object(List(c), List(o))) : c \in CookieLists(max), o \in OriginChoices}

\* the files that are missing or hold something else than a snapshot
OtherFiles ==
    {Absent, NotJson, Json(Null), Json(Array), Json(Object(Missing, Missing)),
     Json(Object(Null, List(<<>>))), Json(Object(List(<<Cookie("A", "d1", 1)>>), Null))}

\* lines 693-699: what existing is bound to
load_existing(file) ==
    IF file.kind = "json" THEN file.value ELSE Object(Missing, Missing)

\* existing.get(key, []) of lines 701-702, for the member read
get_or_empty(member) == IF member.t = "missing" THEN List(<<>>) ELSE member

\* line 705
cookie_key(c) == <<c.name, c.domain, c.path>>

\* o.get("origin") of lines 712 and 714
origin_key(o) == o.origin

\* lines 706-708: the dict that maps the key of each cookie of items to it
RECURSIVE cookie_map(_, _, _)
cookie_map(items, k, d) ==
    IF k > Len(items) THEN d
    ELSE cookie_map(items, k + 1, dict_set(d, cookie_key(items[k]), items[k]))

\* lines 712-714
RECURSIVE origin_map(_, _, _)
origin_map(items, k, d) ==
    IF k > Len(items) THEN d
    ELSE origin_map(items, k + 1, dict_set(d, origin_key(items[k]), items[k]))

\* list(d.values())
dict_values(d) == [i \in 1..Len(d) |-> d[i][2]]

\* the previous entries written over the fresh ones
merged_cookies_previous_wins(existing_cookies, new_cookies) ==
    dict_values(cookie_map(existing_cookies, 1, cookie_map(new_cookies, 1, <<>>)))

\* lines 706-709
merged_cookies(existing_cookies, new_cookies) ==
    dict_values(cookie_map(new_cookies, 1, cookie_map(existing_cookies, 1, <<>>)))

\* the fresh entries appended without a look at their keys
merged_origins_appended(existing_origins, new_origins) ==
    existing_origins \o new_origins

\* lines 712-715
merged_origins(existing_origins, new_origins) ==
    dict_values(origin_map(new_origins, 1, origin_map(existing_origins, 1, <<>>)))

\* lines 701-718 once existing is bound: a value without get (null, an
\* array) raises AttributeError at line 701, a member that is null raises
\* TypeError where it is iterated (lines 706, 712); the handler of line 719
\* then prints the warning and the file is left as it was
merge_existing(file, existing, new_state) ==
    IF existing.t # "object" THEN [file |-> file, warned |-> TRUE]
    ELSE IF get_or_empty(existing.cookies).t # "list" THEN [file |-> file, warned |-> TRUE]
    ELSE IF get_or_empty(existing.origins).t # "list" THEN [file |-> file, warned |-> TRUE]
    ELSE [file |-> Json(Object(
                      List(merged_cookies(get_or_empty(existing.cookies).items,
                                          new_state.cookies)),
                      List(merged_origins(get_or_empty(existing.origins).items,
                                          new_state.origins)))),
          warned |-> FALSE]

\* the file and the warning after merge_and_persist_storage_state
merge_and_persist_storage_state(file, new_state) ==
    merge_existing(file, load_existing(file), new_state)

MergeInit ==
    /\ m_pc = "call"
    /\ m_prev \in SnapshotFiles(MaxCookies) \cup OtherFiles
    /\ m_fresh \in FreshStates(MaxCookies)
    /\ m_file = m_prev
    /\ m_first = <<>>
    /\ m_warned = FALSE
    \* the other operations are not running
    /\ n_pc = "idle" /\ n_raw = <<>> /\ n_out = <<>>
    /\ t_pc = "idle" /\ t_input = <<>> /\ t_blob = <<>> /\ t_lines = <<>>
    /\ t_i = 0 /\ t_products = <<>> /\ t_result = <<>> /\ t_pass = ""
    /\ r_pc = "idle" /\ r_page = <<>> /\ r_table_locator = FALSE
    /\ r_loop_called = FALSE /\ r_final_products = <<>> /\ r_output = <<>>
    /\ r_collected = <<>>
    /\ l_pc = "idle" /\ l_body = <<>> /\ l_expected_total = <<>> /\ l_elapsed = 0
    /\ l_last_count = 0 /\ l_stable = 0 /\ l_clicked = FALSE /\ l_k = 0
    /\ l_exit = "" /\ l_hist = <<>> /\ l_clicks = 0 /\ l_action = "" /\ l_waits = ""
    /\ a_pc = "idle" /\ a_env = <<>> /\ a_file = <<>> /\ a_context = "none"
    /\ a_open = 0 /\ a_browser = FALSE /\ a_output = FALSE /\ a_exc = "" /\ a_runs = 0

\* the call leaves the file and the warning of r
m_persisted(r) ==
    /\ m_file' = r.file
    /\ m_warned' = r.warned

\* merge_and_persist_storage_state(context) on the file m_prev
m_merge ==
    /\ m_pc = "call"
    /\ m_persisted(merge_and_persist_storage_state(m_file, m_fresh))
    /\ m_first' = m_file'
    /\ m_pc' = "merged"
    /\ UNCHANGED <<m_prev, m_fresh, normVars, textVars, runVars, loopVars, authVars>>

\* the same call once more, on the file the first call left
m_remerge ==
    /\ m_pc = "merged"
    /\ m_persisted(merge_and_persist_storage_state(m_file, m_fresh))
    /\ m_pc' = "remerged"
    /\ UNCHANGED <<m_prev, m_fresh, m_first, normVars, textVars, runVars, loopVars, authVars>>

MergeNext == m_merge \/ m_remerge

(***************************************************************************)
(* The session stage of run() (lines 399-535), followed by the rest of the *)
(* run as one step, over several runs of the program that share the file   *)
(* STORAGE_STATE.                                                          *)
(***************************************************************************)
MaxRuns == 3

\* which of iden_url, username and password lines 404-406 found
Envs == [url : BOOLEAN, username : BOOLEAN, password : BOOLEAN]

\* the cookies a context holds after a login
LoginStates ==
    {<<Cookie("A", "d1", 1)>>, <<Cookie("C", "d3", 1)>>,
     <<Cookie("A", "d1", 2), Cookie("C", "d3", 1)>>}

\* the file context.storage_state(path=...) writes for these cookies
StateFile(cookies) == Json(Object(List(cookies), List(<<>>)))

\* what the first run finds at STORAGE_STATE
FirstFiles == {Absent, NotJson, StateFile(<<Cookie("B", "d2", 1)>>)}

\* the test of line 467 with the password left out
credentials_missing_username_only(env) == ~env.username

\* line 467: not username or not password
credentials_missing(env) == ~env.username \/ ~env.password

AuthInit ==
    /\ a_pc = "start"
    /\ a_env \in Envs
    /\ a_file \in FirstFiles
    /\ a_context = "none"
    /\ a_open = 0
    /\ a_browser = FALSE
    /\ a_output = FALSE
    /\ a_exc = ""
    /\ a_runs = 1
    \* the other operations are not running
    /\ n_pc = "idle" /\ n_raw = <<>> /\ n_out = <<>>
    /\ t_pc = "idle" /\ t_input = <<>> /\ t_blob = <<>> /\ t_lines = <<>>
    /\ t_i = 0 /\ t_products = <<>> /\ t_result = <<>> /\ t_pass = ""
    /\ r_pc = "idle" /\ r_page = <<>> /\ r_table_locator = FALSE
    /\ r_loop_called = FALSE /\ r_final_products = <<>> /\ r_output = <<>>
    /\ r_collected = <<>>
    /\ l_pc = "idle" /\ l_body = <<>> /\ l_expected_total = <<>> /\ l_elapsed = 0
    /\ l_last_count = 0 /\ l_stable = 0 /\ l_clicked = FALSE /\ l_k = 0
    /\ l_exit = "" /\ l_hist = <<>> /\ l_clicks = 0 /\ l_action = "" /\ l_waits = ""
    /\ m_pc = "idle" /\ m_prev = <<>> /\ m_fresh = <<>> /\ m_file = <<>>
    /\ m_first = <<>> /\ m_warned = FALSE

\* lines 400-413: the browser is launched; without a url it is closed and
\* run() raises
a_start ==
    /\ a_pc = "start"
    /\ IF a_env.url
       THEN a_browser' = TRUE /\ a_exc' = "" /\ a_pc' = "reuse"
       ELSE a_browser' = FALSE /\ a_exc' = "url" /\ a_pc' = "raised"
    /\ UNCHANGED <<a_env, a_file, a_context, a_open, a_output, a_runs,
                   normVars, textVars, runVars, loopVars, mergeVars>>

\* lines 416-459: with a state file a context is made from it and the target
\* page visited.  "valid": no sign-in form shows and the context is kept;
\* "sign_in": one shows and the context is closed (lines 435-438); "failed":
\* the context could not be made or the visit or the check raised, and the
\* context, if made, is closed (lines 439-456).  A file that is not a
\* snapshot can only fail.
a_reuse ==
    /\ a_pc = "reuse"
    /\ \E outcome \in {"valid", "sign_in", "failed"} :
          /\ a_file = Absent => outcome = "failed"
          /\ a_file = NotJson => outcome = "failed"
          /\ a_context' = IF outcome = "valid" THEN "stored" ELSE "none"
          /\ a_open' = IF outcome = "valid" THEN 1 ELSE 0
    /\ a_pc' = "context"
    /\ UNCHANGED <<a_env, a_file, a_browser, a_output, a_exc, a_runs,
                   normVars, textVars, runVars, loopVars, mergeVars>>

\* lines 462-470: without a context from the stored state a new one is made,
\* and without the username or the password it is closed, the browser is
\* closed and run() raises
a_new_context ==
    /\ a_pc = "context"
    /\ IF a_context = "stored"
       THEN /\ a_pc' = "extract"
            /\ UNCHANGED <<a_context, a_open, a_browser, a_exc>>
       ELSE /\ a_context' = "fresh"
            /\ IF credentials_missing(a_env)
               THEN a_open' = 0 /\ a_browser' = FALSE /\ a_exc' = "credentials"
                    /\ a_pc' = "raised"
               ELSE a_open' = 1 /\ a_browser' = a_browser /\ a_exc' = a_exc
                    /\ a_pc' = "login"
    /\ UNCHANGED <<a_env, a_file, a_output, a_runs,
                   normVars, textVars, runVars, loopVars, mergeVars>>

\* lines 472-535: the credentials are filled in and the form submitted.
\* "no_inputs": no input takes them, context and browser are closed and the
\* error leaves run() (lines 488-500); "saved": context.storage_state(path)
\* writes the state of the context to STORAGE_STATE (line 532); "unsaved": it
\* raises and the run goes on (lines 533-535)
a_login ==
    /\ a_pc = "login"
    /\ \E outcome \in {"no_inputs", "saved", "unsaved"}, cookies \in LoginStates :
          /\ a_file' = IF outcome = "saved" THEN StateFile(cookies) ELSE a_file
          /\ a_open' = IF outcome = "no_inputs" THEN 0 ELSE a_open
          /\ a_browser' = (outcome # "no_inputs")
          /\ a_exc' = IF outcome = "no_inputs" THEN "inputs" ELSE ""
          /\ a_pc' = IF outcome = "no_inputs" THEN "raised" ELSE "extract"
    /\ UNCHANGED <<a_env, a_context, a_output, a_runs,
                   normVars, textVars, runVars, loopVars, mergeVars>>

\* lines 537-680: the product view is opened and extracted; the output file
\* is written and context and browser are closed, unless the extraction
\* raises, which leaves run() with both open
a_extract ==
    /\ a_pc = "extract"
    /\ \E raised \in BOOLEAN :
          /\ a_output' = ~raised
          /\ a_open' = IF raised THEN a_open ELSE 0
          /\ a_browser' = raised
          /\ a_exc' = IF raised THEN "extract" ELSE ""
          /\ a_pc' = IF raised THEN "raised" ELSE "done"
    /\ UNCHANGED <<a_env, a_file, a_context, a_runs,
                   normVars, textVars, runVars, loopVars, mergeVars>>

\* lines 724-725: the program is run again, with the file the earlier runs left
a_next_run ==
    /\ a_pc \in {"done", "raised"}
    /\ a_runs < MaxRuns
    /\ a_runs' = a_runs + 1
    /\ a_env' \in Envs
    /\ a_context' = "none"
    /\ a_open' = 0
    /\ a_browser' = FALSE
    /\ a_output' = FALSE
    /\ a_exc' = ""
    /\ a_pc' = "start"
    /\ UNCHANGED <<a_file, normVars, textVars, runVars, loopVars, mergeVars>>

AuthNext == a_start \/ a_reuse \/ a_new_context \/ a_login \/ a_extract \/ a_next_run
(***************************************************************************)
(* The specifications.                                                     *)
(***************************************************************************)
SpecNorm == NormInit /\ [][n_normalize]_vars

SpecText == TextInit /\ [][TextNext]_vars

SpecRun == RunInit /\ [][RunNext]_vars

SpecLoop == LoopInit /\ [][LoopNext]_vars


SpecMerge == MergeInit /\ [][MergeNext]_vars

SpecAuth == AuthInit /\ [][AuthNext]_vars

\* normalize_row_dict or parse_products_from_text, whichever is called
SpecTrim == (NormInit \/ TextInit) /\ [][n_normalize \/ TextNext]_vars

\* the line scan of pass B; the loop, once begun, takes its next turn
SpecScan == ScanInit /\ [][ScanNext]_vars /\ WF_vars(ScanNext)
(***************************************************************************)
(* The properties.  What the specification promises is stated on the       *)
(* candidate lists and results of the model; the identity of a record is   *)
(* the one of the specification: its SKU if it has one, else its id if it  *)
(* has one, else its name and type.                                        *)
(***************************************************************************)
IdNonEmpty(id) == id # IdStr(<<>>)

SameIdentity(p, q) ==
    IF p.sku # <<>> \/ q.sku # <<>> THEN p.sku = q.sku
    ELSE IF IdNonEmpty(p.id) \/ IdNonEmpty(q.id) THEN p.id = q.id
    ELSE p.product_name = q.product_name /\ p.type = q.type

\* the candidates that no earlier candidate shares its identity with, in order
FirstSeen(products) ==
    LET kept == SelectSeq([k \in 1..Len(products) |-> k],
                          LAMBDA i : \A j \in 1..(i - 1) :
                                        ~SameIdentity(products[j], products[i]))
    IN  [k \in 1..Len(kept) |-> strip_fields(products[kept[k]])]

\* the record a rendered card stands for
CardRecord(c) ==
    [product_name |-> c.name, type |-> TypeOf(c.name), id |-> IdInt(str_to_int(c.id)),
     shade |-> <<"r", "e", "d">>, cost |-> <<"$", "1">>, manufacturer |-> <<"m">>, sku |-> str_strip(c.sku),
     composition |-> <<"c">>, updated |-> <<"1", "/", "2">>]

VelvetRecord ==
    [product_name |-> <<"V", "e", "l", "v", "e", "t", " ", "M", "a", "t", "t", "e", " ", "L", "i", "p", "s", "t", "i", "c", "k">>, type |-> <<"b", "e", "a", "u", "t", "y">>, id |-> IdInt(1042),
     shade |-> <<"C", "r", "i", "m", "s", "o", "n">>, cost |-> <<"$", "1", "8", ".", "5", "0">>, manufacturer |-> <<"G", "l", "o", "w", "C", "o">>,
     sku |-> <<"G", "L", "W", "-", "1", "0", "4", "2", "-", "3">>, composition |-> <<"W", "a", "x", "/", "P", "i", "g", "m", "e", "n", "t">>, updated |-> <<"0", "3", "/", "1", "4", "/", "2", "0", "2", "4">>]

\* C1: parse_products_from_text returns, for the literal Velvet Matte Lipstick
\* blob, exactly the one record of the example with every field filled; and
\* for every card whose labels end in a colon with the value on the following
\* line, the one record whose fields are those following lines.
C1_LabelValueOnNextLine ==
    t_pc = "returned" =>
        /\ t_input.kind = "literal" => t_result = <<VelvetRecord>>
        /\ t_input.kind = "C" => t_result = <<CardRecord(t_input.cards[1])>>

IsString(v) == DOMAIN v = 1..Len(v)

\* C2: for every raw row normalize_row_dict returns (it does not raise) a
\* record with exactly the nine canonical keys, whose id is an int or a str
\* and whose other values are strings.
C2_NineCanonicalKeys ==
    n_pc # "call" =>
        /\ n_pc = "returned"
        /\ n_out.exc = ""
        /\ DOMAIN n_out.value = CanonicalKeys
        /\ n_out.value.id.kind \in {"int", "str"}
        /\ \A k \in CanonicalKeys \ {"id"} : IsString(n_out.value[k])

\* the candidates that carry the SKU s
WithSku(products, s) == {i \in 1..Len(products) : products[i].sku = s}

\* the place of a returned record among the candidates: its first occurrence
FirstIndex(products, r) ==
    SetMin({i \in 1..Len(products) : strip_fields(products[i]) = r})

\* C3: in both deduplication passes, of two or more candidates with the same
\* non-empty SKU and different other fields exactly one is in the result, the
\* first of them, and the records of the result stand in the order of their
\* first occurrence among the candidates.
C3_SameSkuFirstWins ==
    t_pc = "returned" =>
        /\ \A i \in 1..Len(t_products) :
              LET s == t_products[i].sku IN
              (s # <<>> /\ \E j \in WithSku(t_products, s) : t_products[j] # t_products[i])
                  => /\ Cardinality({k \in 1..Len(t_result) : t_result[k].sku = s}) = 1
                     /\ \E k \in 1..Len(t_result) :
                           t_result[k] = strip_fields(t_products[SetMin(WithSku(t_products, s))])
        /\ \A k1, k2 \in 1..Len(t_result) :
              k1 < k2 => FirstIndex(t_products, t_result[k1]) < FirstIndex(t_products, t_result[k2])

\* C4: in pass A and pass B alike the records are deduplicated by SKU if
\* non-empty, else id if non-empty, else (product_name, type): among
\* candidates without SKU, those with the same non-empty id collapse to the
\* first of them whatever their names, and those with different ids and the
\* same name and type all survive.
C4_IdentityKeyPriority ==
    (t_pc = "returned" /\ \A i \in 1..Len(t_products) : t_products[i].sku = <<>>)
        => t_result = FirstSeen(t_products)

\* C5: the list written by a run holds no two records with the same
\* identity, on the table path as on the text path: of two table rows with
\* the same non-empty SKU only the first is written.
C5_OutputHasNoDuplicate ==
    r_pc = "done" =>
        \A i, j \in 1..Len(r_output) : i # j => ~SameIdentity(r_output[i], r_output[j])

\* the SKUs of the cards are there and pairwise distinct
DistinctSkus(cards) ==
    /\ \A i \in 1..Len(cards) : str_strip(cards[i].sku) # <<>>
    /\ \A i, j \in 1..Len(cards) : i # j => cards[i].sku # cards[j].sku

\* C6: for a blob that contains N >= 1 well-formed cards with pairwise
\* distinct SKUs, parse_products_from_text returns through pass A exactly N
\* records, the k-th with the name and type of the k-th card, and the line
\* scan of pass B does not run; whenever pass A matches, what is returned is
\* the deduplicated list of its matches.
C6_PassAReturnsEachCard ==
    /\ (t_pc \in {"scan", "returned", "raised"} /\ t_input.kind = "A"
            /\ DistinctSkus(t_input.cards))
          => /\ t_pc = "returned" /\ t_pass = "A"
             /\ Len(t_result) = Len(t_input.cards)
             /\ \A k \in 1..Len(t_result) :
                   /\ t_result[k].product_name = t_input.cards[k].name
                   /\ t_result[k].type = TypeOf(t_input.cards[k].name)
    /\ (t_pc = "returned" /\ t_pass = "A") => t_result = dedup_a(t_products, {}, <<>>)

\* the number of measurements at the end of the history that repeat the one
\* before them
Repeats(h) ==
    Cardinality({k \in 1..(Len(h) - 1) : \A j \in k..(Len(h) - 1) : h[j + 1] = h[j]})

C7_Inv ==
    /\ l_exit = "stable" => Repeats(l_hist) = 3
    /\ (l_pc # "init" /\ l_exit # "total") =>
          /\ l_stable = Repeats(l_hist)
          /\ l_last_count = IF l_hist = <<>> THEN -1 ELSE l_hist[Len(l_hist)]
          /\ (Repeats(l_hist) >= 3) <=> (l_exit = "stable")
    /\ \A a, b \in 0..MaxRows :
          (a # b /\ l_hist = <<a, b, b, b, b>>) => l_exit = "stable"

C7_Step ==
    (l_pc = "evaluate" /\ l_exit' # "total") =>
        LET new_count == l_hist'[Len(l_hist')] IN
        /\ new_count # l_last_count => (l_stable' = 0 /\ l_last_count' = new_count)
        /\ new_count = l_last_count => (l_stable' = l_stable + 1 /\ l_last_count' = l_last_count)

\* C7: ensure_all_rows_loaded returns through the stability condition
\* exactly when the measured count has equalled last_count in 3 consecutive
\* iterations and never earlier; an Evaluate step (one that does not return
\* on the total) that measures a count different from last_count sets stable
\* to 0 and last_count to the new count, an equal one adds 1 to stable; a
\* history that changes twice and then repeats 3 times ends stable.
C7_StabilityExit == []C7_Inv /\ [][C7_Step]_vars

\* a run whose count changed twice, then repeated 3 times, and ended stable
C7_Witness == l_exit = "stable" /\ l_hist = <<1, 2, 2, 2, 2>> /\ l_stable = 3

\* C8: whenever expected_total is known, the loop returns on the total at the
\* first Evaluate step that measures a count greater than or equal to it,
\* whatever stable is, and it returns on the total at no step whose count is
\* below it.
C8_TotalExit ==
    /\ (l_expected_total.known /\ l_hist # <<>>
            /\ l_hist[Len(l_hist)] >= l_expected_total.n) => l_exit = "total"
    /\ l_exit = "total" =>
          (l_expected_total.known /\ l_hist[Len(l_hist)] >= l_expected_total.n)

\* C9: ensure_all_rows_loaded ends in exactly one of the three terminal
\* conditions, total reached, stable or timeout, whatever the click, wait
\* and scroll sub-steps do; it never raises.
C9_ThreeTerminals ==
    l_pc = "done" => l_exit \in {"total", "stable", "timeout"}

\* C10: with no total declared and a count that never stabilizes the function
\* ends through the timeout path; it takes that path only once the elapsed
\* time has reached timeout_ms, and it starts no iteration once it has.
C10_TimeoutExit ==
    /\ (l_pc = "done" /\ ~l_expected_total.known /\ Repeats(l_hist) < 3)
          => l_exit = "timeout"
    /\ l_exit = "timeout" => l_elapsed >= timeout_ms
    /\ l_pc \in {"click", "links", "scroll", "evaluate"} => l_elapsed < timeout_ms


\* C11: whenever run() has chosen a table, ensure_all_rows_loaded has been
\* run on it before its rows are extracted, and the loop is not run when no
\* table was found.
C11_LoopDrivesTable ==
    r_pc \in {"extract", "write", "done", "raised"} => (r_loop_called <=> r_table_locator)

\* the file holds a snapshot: an object with a list of cookies and of origins
IsSnapshot(file) ==
    /\ file.kind = "json"
    /\ file.value.t = "object"
    /\ file.value.cookies.t = "list"
    /\ file.value.origins.t = "list"

CookiesOf(file) == file.value.cookies.items
OriginsOf(file) == file.value.origins.items

\* entries paired with their keys
CookiePairs(items) == [i \in 1..Len(items) |-> <<cookie_key(items[i]), items[i]>>]
OriginPairs(items) == [i \in 1..Len(items) |-> <<origin_key(items[i]), items[i]>>]

PairKeys(pairs) == {pairs[i][1] : i \in 1..Len(pairs)}

\* the entry a list holds for a key (the latest, should it hold several)
EntryFor(pairs, k) == pairs[SetMax({i \in 1..Len(pairs) : pairs[i][1] = k})][2]

OneEntryPerKey(pairs) ==
    \A i, j \in 1..Len(pairs) : pairs[i][1] = pairs[j][1] => i = j

\* w holds the entry of f for every key of f, the entry of p for every key
\* of p alone, and nothing else
MergedFrom(p, f, w) ==
    /\ PairKeys(w) = PairKeys(p) \cup PairKeys(f)
    /\ OneEntryPerKey(w)
    /\ \A i \in 1..Len(w) :
          w[i][2] = IF w[i][1] \in PairKeys(f) THEN EntryFor(f, w[i][1])
                    ELSE EntryFor(p, w[i][1])

\* C12: for every previous snapshot P and fresh snapshot F the file persisted
\* by merge_and_persist_storage_state holds, for each cookie key (name,
\* domain, path) of F, the entry of F, for each key of P alone the entry of
\* P, and no other cookie; likewise the origin entries, by origin.
C12_MergeByKey ==
    (m_pc = "merged" /\ IsSnapshot(m_prev)) =>
        /\ ~m_warned
        /\ IsSnapshot(m_file)
        /\ MergedFrom(CookiePairs(CookiesOf(m_prev)), CookiePairs(m_fresh.cookies),
                      CookiePairs(CookiesOf(m_file)))
        /\ MergedFrom(OriginPairs(OriginsOf(m_prev)), OriginPairs(m_fresh.origins),
                      OriginPairs(OriginsOf(m_file)))

\* previous {A@d1, B@d2}, fresh {B'@d2, C@d3}: the file holds {A, B', C}
C12_Witness ==
    /\ m_pc = "merged"
    /\ IsSnapshot(m_prev)
    /\ CookiesOf(m_prev) = <<Cookie("A", "d1", 1), Cookie("B", "d2", 1)>>
    /\ m_fresh.cookies = <<Cookie("B", "d2", 2), Cookie("C", "d3", 1)>>
    /\ OriginsOf(m_prev) = <<Origin("o1", 1)>>
    /\ m_fresh.origins = <<Origin("o1", 2)>>
    /\ {CookiesOf(m_file)[i] : i \in 1..Len(CookiesOf(m_file))}
          = {Cookie("A", "d1", 1), Cookie("B", "d2", 2), Cookie("C", "d3", 1)}
    /\ OriginsOf(m_file) = <<Origin("o1", 2)>>

\* C14: merging F once more into the result of merging F into P leaves the
\* persisted snapshot as the first merge left it, and the result holds no
\* two cookies with the same (name, domain, path) and no two origin entries
\* with the same origin, whatever duplicates P and F hold.
C14_MergeIdempotent ==
    (m_pc = "remerged" /\ IsSnapshot(m_prev)) =>
        /\ m_file = m_first
        /\ IsSnapshot(m_file)
        /\ OneEntryPerKey(CookiePairs(CookiesOf(m_file)))
        /\ OneEntryPerKey(OriginPairs(OriginsOf(m_file)))

\* a second merge where P and F both hold a key twice
C14_Witness ==
    /\ m_pc = "remerged"
    /\ IsSnapshot(m_prev)
    /\ CookiesOf(m_prev) = <<Cookie("B", "d2", 1), Cookie("B", "d2", 2)>>
    /\ m_fresh.cookies = <<Cookie("A", "d1", 1), Cookie("A", "d1", 1)>>
    /\ OriginsOf(m_prev) = <<Origin("o1", 1), Origin("o1", 2)>>
    /\ CookiesOf(m_file) = <<Cookie("B", "d2", 2), Cookie("A", "d1", 1)>>
    /\ OriginsOf(m_file) = <<Origin("o1", 2)>>

\* C15: when the previous file is absent, is not JSON, or is JSON that is
\* not a snapshot object, merge_and_persist_storage_state does not fail and
\* the snapshot it persists consists of exactly the cookie and origin
\* entries of the fresh state.
C15_CorruptPreviousIsEmpty ==
    (m_pc = "merged" /\ ~IsSnapshot(m_prev)) =>
        /\ ~m_warned
        /\ IsSnapshot(m_file)
        /\ MergedFrom(<<>>, CookiePairs(m_fresh.cookies), CookiePairs(CookiesOf(m_file)))
        /\ MergedFrom(<<>>, OriginPairs(m_fresh.origins), OriginPairs(OriginsOf(m_file)))

\* the cookie and origin keys a file holds
FileKeys(file) ==
    IF IsSnapshot(file)
    THEN PairKeys(CookiePairs(CookiesOf(file))) \cup PairKeys(OriginPairs(OriginsOf(file)))
    ELSE {}

\* C13: across the runs of the program the set of cookie and origin keys in
\* the persisted session file only grows: a key persisted by an earlier run
\* is still in the file after a later run whose fresh state lacks it has
\* logged in and persisted its state.
C13_FileKeysGrow == [][FileKeys(a_file) \subseteq FileKeys(a_file')]_vars

\* the run has ended
RunEnded == a_pc \in {"done", "raised"}

\* the run reused no stored session (a run that ended before it tried had
\* none to reuse when the file is absent or unreadable)
NoStoredSession ==
    /\ a_context # "stored"
    /\ a_exc = "url" => a_file \in {Absent, NotJson}

\* the missing-credentials abort happens exactly without a stored session
\* and without the username or the password, and it leaves no context and
\* no browser open and no output file
CredentialsAbort ==
    /\ (a_exc = "credentials") <=> (NoStoredSession /\ (~a_env.username \/ ~a_env.password))
    /\ a_exc = "credentials" => (a_open = 0 /\ ~a_browser /\ ~a_output)

\* C20: a run that has its url aborts with the missing-credentials error
\* exactly when no stored session is reused (no state file, a state file
\* that cannot be loaded, or a sign-in form showing) and the username or the
\* password is absent; with a reused session absent credentials do not abort
\* it; and on the abort the context and the browser are closed and no output
\* file is written.
C20_CredentialsAbortWithUrl == (RunEnded /\ a_env.url) => CredentialsAbort

\* a stored session that shows a sign-in form and no password: the run aborts
C20_Witness ==
    /\ a_pc = "raised" /\ a_exc = "credentials"
    /\ a_file = StateFile(<<Cookie("B", "d2", 1)>>)
    /\ a_env.url /\ a_env.username /\ ~a_env.password
    /\ a_open = 0 /\ ~a_browser /\ ~a_output

\* C20 as stated, for every run: without a stored session and without the
\* username or the password run() aborts with the missing-credentials error.
C20_CredentialsAbortAlways == RunEnded => CredentialsAbort

\* the name of the field a canonical key stands for
FieldOf(key) == CanonicalOrder[CHOOSE i \in 1..Len(CanonicalOrder) : CanonicalOrder[i][2] = key][1]

\* the id a dict value is
AsId(v) == IF is_int(v) THEN IdInt(int_of(v)) ELSE IdStr(v)

\* raw has exactly the nine canonical keys, trimmed strings as values, and
\* an id that is an int, a trimmed string that is no number, or ""
IsCanonicalRow(raw) ==
    /\ Len(raw) = Len(CanonicalOrder)
    /\ {raw[i][1] : i \in 1..Len(raw)} = {CanonicalOrder[i][2] : i \in 1..Len(CanonicalOrder)}
    /\ \A i \in 1..Len(raw) :
          IF FieldOf(raw[i][1]) = "id"
          THEN \/ is_int(raw[i][2])
               \/ (str_strip(raw[i][2]) = raw[i][2] /\ ~str_isdigit(raw[i][2]))
          ELSE ~is_int(raw[i][2]) /\ str_strip(raw[i][2]) = raw[i][2]

\* C16: for every record R that has exactly the nine canonical keys, trimmed
\* string values and an id that is an integer, a non-numeric trimmed string
\* or the empty string, normalize_row_dict(R) returns R field for field.
C16_NormalizeIdempotent ==
    (n_pc # "call" /\ IsCanonicalRow(n_raw)) =>
        /\ n_pc = "returned"
        /\ DOMAIN n_out.value = CanonicalKeys
        /\ \A i \in 1..Len(n_raw) :
              n_out.value[FieldOf(n_raw[i][1])] =
                  IF FieldOf(n_raw[i][1]) = "id" THEN AsId(n_raw[i][2]) ELSE n_raw[i][2]

\* a canonical record with an int id and a name of two words came back as it was
C16_Witness ==
    /\ n_pc = "returned"
    /\ IsCanonicalRow(n_raw)
    /\ n_raw[1][1] = <<"u", "p", "d", "a", "t", "e", "d">>
    /\ n_out.value.id = IdInt(42)
    /\ n_out.value.product_name = <<"A", " ", "b">>
    /\ n_out.value.sku = <<"S", "-", "1">>

\* the line holds, in whatever case, one of the noise phrases of the page chrome
HasNoise(line) == \E h \in header_noise : str_contains(str_lower(line), h)

\* the lines i and i + 1 (counted from 0) are a line with a noise phrase and a
\* known category under it
NoisePair(lines, i) ==
    /\ i + 1 < Len(lines)
    /\ HasNoise(At(lines, i))
    /\ str_lower(At(lines, i + 1)) \in categories

C17_Inv ==
    (t_pc = "returned" /\ t_pass = "B") =>
        \A i \in 0..(Len(t_lines) - 2) :
            NoisePair(t_lines, i) =>
                \A k \in 1..Len(t_result) : t_result[k].product_name # At(t_lines, i)

C17_Step ==
    (t_pc = "scan" /\ NoisePair(t_lines, t_i)) =>
        /\ t_pc' = "scan"
        /\ t_i' = t_i + 1
        /\ t_products' = t_products

\* C17: in pass B a line that holds a noise phrase of the page chrome, in
\* whatever case, with a known category on the line after it is never taken
\* as a product: no returned record has that line as its product_name, and
\* the turn of the scan that stands on it moves on by exactly one line and
\* adds no candidate.
C17_NoiseIsNoBoundary == [](C17_Inv) /\ [][C17_Step]_vars

\* two cards with 'Showing 24 of 180 products' and 'electronics' between
\* them: the scan has stood on the chrome line and both cards are returned
C17_Witness ==
    /\ t_pc = "returned" /\ t_pass = "B"
    /\ NoisePair(t_lines, 12)
    /\ At(t_lines, 12) = <<"S", "h", "o", "w", "i", "n", "g", " ", "2", "4", " ", "o", "f", " ", "1", "8", "0", " ", "p", "r", "o", "d", "u", "c", "t", "s">>
    /\ Len(t_result) = 2
    /\ t_result[2].product_name = t_input.cards[2].name

\* a candidate without SKU and without id
NoSkuNoId(p) == p.sku = <<>> /\ p.id = IdStr(<<>>)

\* the candidates without SKU and id that have the name and type of p
SamePair(products, p) ==
    {j \in 1..Len(products) :
        /\ NoSkuNoId(products[j])
        /\ products[j].product_name = p.product_name
        /\ products[j].type = p.type}

\* C18: in text extraction the candidates with empty SKU and empty id that
\* have the same (product_name, type) pair collapse to one record, the first
\* of them, and such candidates with different pairs all survive: for every
\* such candidate the result holds exactly one record without SKU and id
\* for its pair, the first candidate of that pair.
C18_NameTypeFallback ==
    t_pc = "returned" =>
        \A i \in 1..Len(t_products) :
            NoSkuNoId(t_products[i]) =>
                /\ Cardinality(SamePair(t_result, t_products[i])) = 1
                /\ \E k \in 1..Len(t_result) :
                      t_result[k] = strip_fields(
                          t_products[SetMin(SamePair(t_products, t_products[i]))])

\* the record of a row of a table without header cells: cell j under col<j>
PositionalItem(cells) == [j \in 1..Len(cells) |-> <<col_name(j - 1), str_strip(cells[j])>>]

C21_TableFaultContained ==
    (r_table_locator /\ r_page.table.fault # "none" /\ r_pc # "extract") =>
        r_pc \in {"write", "done"}

\* s neither starts nor ends with whitespace
IsTrimmed(s) == s = <<>> \/ (s[1] \notin SpaceChars /\ s[Len(s)] \notin SpaceChars)

\* the string values of a record, the id among them when it is a string
AllTrimmed(p) ==
    /\ \A k \in CanonicalKeys \ {"id"} : IsTrimmed(p[k])
    /\ p.id.kind = "str" => IsTrimmed(p.id.s)

\* C22: every string value of every record that normalize_row_dict returns,
\* and of every record that parse_products_from_text returns through pass A
\* or pass B, has no leading and no trailing whitespace.
C22_StringsTrimmed ==
    /\ n_pc = "returned" => AllTrimmed(n_out.value)
    /\ t_pc = "returned" => \A k \in 1..Len(t_result) : AllTrimmed(t_result[k])

\* a raw id of ' 42 ' and a raw SKU of ' x ' came back without the blanks
C22_Witness ==
    /\ n_pc = "returned"
    /\ n_raw = << <<<<"i", "d">>, <<" ", "4", "2", " ">>>>, <<<<"s", "k", "u">>, <<" ", "x", " ">>>> >>
    /\ n_out.value.sku = <<"x">>
    /\ n_out.value.id = IdStr(<<"4", "2">>)

\* C23: within one iteration the candidates are tried in the order text
\* clicks, pagination links, scroll, and the first success ends the
\* trying: the links are tried only after every text failed, the scroll only
\* after no click succeeded, and an iteration holds at most one click that
\* succeeded, also when the wait after that click raised.
C23_FirstSuccessEndsIteration ==
    /\ l_pc = "links" => (l_k = Len(click_texts) /\ l_clicks = 0)
    /\ l_pc = "scroll" => l_clicks = 0
    /\ l_action = "scroll" => l_clicks = 0
    /\ l_clicks <= 1
    /\ l_clicks = 1 => l_pc \notin {"click", "links", "scroll"}

\* C24: after any action of an iteration, a text click, a link click or a
\* scroll, the row count is measured again only after the loop has waited
\* for the network to be idle and then paused.
C24_WaitThenPause ==
    (l_pc = "evaluate" /\ l_action # "") => l_waits = "quiet_pause"

\* 'of <number>': of, whitespace, a digit and the digits and separators after it
OfNumberPattern ==
    << Lit(<<"o", "f">>), Rep("space", 1, -1, TRUE),
       Open("total"), Rep("digit", 1, 1, TRUE), Rep("total", 0, -1, TRUE), Close("total") >>

\* the number of the first phrase 'of <number>' of the text, 0 without one
OfNumberIn(text, m) ==
    IF m.ok THEN str_to_int(without_commas(Group(text, m.caps, "total"))) ELSE 0

FirstOfNumber(text) == OfNumberIn(text, re_search(OfNumberPattern, TRUE, text))

C25_Inv ==
    (l_pc # "init" /\ l_body.ok /\ FirstOfNumber(l_body.text) > 0) =>
        l_expected_total = Total(FirstOfNumber(l_body.text))

C25_Step == l_pc # "init" => l_expected_total' = l_expected_total

\* C25: whenever the body text can be read and holds a phrase 'of <number>'
\* for a positive integer in digits with optional thousands separators,
\* expected_total is, from Init on, the integer of the first such phrase,
\* and no step after Init changes expected_total.
C25_TotalFromText == [](C25_Inv) /\ [][C25_Step]_vars

\* the regions whose trimmed text has 40 characters or more
Survivors(texts) ==
    SelectSeq([k \in 1..Len(texts) |-> str_strip(texts[k])], LAMBDA txt : Len(txt) >= 40)

\* C26: on the path without a table a region with a product keyword is
\* left out of the blob exactly when its trimmed text is shorter than 40
\* characters (one of 40 is kept, one of 39 is not), and the blob is the
\* text of the whole page only when no region is kept.
C26_RegionThreshold ==
    (r_pc \in {"write", "done", "raised"} /\ ~r_table_locator) =>
        page_blob(r_page) =
            str_join(<<"\n", "\n">>,
                     IF Survivors(r_page.blocks) # <<>> THEN Survivors(r_page.blocks)
                     ELSE <<r_page.body>>)

\* the places of the raw keys that, trimmed and in lower case, are equal to
\* the alias, and of those that contain it
EqualTo(raw, alias) ==
    {i \in 1..Len(raw) : raw[i][1] # <<>> /\ str_lower(str_strip(raw[i][1])) = str_lower(alias)}
Containing(raw, alias) ==
    {i \in 1..Len(raw) : str_contains(str_lower(str_strip(raw[i][1])), str_lower(alias))}

\* the raw value of the first key at the earliest alias that has a Kind match
ByEarliestAlias(raw, al, Kind(_, _)) ==
    raw[SetMin(Kind(raw, al[SetMin({j \in 1..Len(al) : Kind(raw, al[j]) # {}})]))][2]

\* equality first, containment only without any equality, else ""
Resolved(raw, al) ==
    IF \E j \in 1..Len(al) : EqualTo(raw, al[j]) # {} THEN ByEarliestAlias(raw, al, EqualTo)
    ELSE IF \E j \in 1..Len(al) : Containing(raw, al[j]) # {}
    THEN ByEarliestAlias(raw, al, Containing)
    ELSE <<>>

\* C27: every field of the record normalize_row_dict returns is the raw
\* value, trimmed, of the key found for the field's aliases by equality of
\* the trimmed lower-cased key first and by containment only when no alias
\* has an equal key, the earliest alias winning among matches of one kind;
\* it is the empty string when no alias is equal to or contained in a key.
C27_ExactBeforeContaining ==
    n_pc = "returned" =>
        /\ \A f \in CanonicalKeys \ {"id"} :
              n_out.value[f] = str_strip(Resolved(n_raw, aliases[f]))
        /\ IF is_int(Resolved(n_raw, aliases.id))
           THEN n_out.value.id = AsId(Resolved(n_raw, aliases.id))
           ELSE IdToStr(n_out.value.id) = str_strip(Resolved(n_raw, aliases.id))

\* 'names' contains the second alias of product_name, 'title' is equal to
\* the fourth: the value under 'title' is taken
C27_Witness ==
    /\ n_pc = "returned"
    /\ n_raw = << <<<<"n", "a", "m", "e", "s">>, <<"v", "1">>>>, <<<<"t", "i", "t", "l", "e">>, <<"v", "2">>>> >>
    /\ n_out.value.product_name = <<"v", "2">>

\* the record as a raw row, its nine keys in the order of the record
AsRawRow(out) ==
    [i \in 1..Len(CanonicalOrder) |->
        <<CanonicalOrder[i][2],
          IF CanonicalOrder[i][1] # "id" THEN out[CanonicalOrder[i][1]]
          ELSE IF out.id.kind = "int" THEN IntValue(out.id.n) ELSE out.id.s>>]

\* C30: the id of a record returned by normalize_row_dict is never a string
\* of digits only (a raw id that, once trimmed, consists of digits comes
\* back as the integer), and normalize_row_dict applied to the record it
\* returned returns that record again.
C30_IdNeverDigitString ==
    n_pc = "returned" =>
        /\ ~(n_out.value.id.kind = "str" /\ str_isdigit(n_out.value.id.s))
        /\ normalize_row_dict(AsRawRow(n_out.value)) = [value |-> n_out.value, exc |-> ""]

\* the pair of lines i and i + 1 (counted from 0) is a boundary: a known
\* category under a line without noise phrase
BoundaryPair(lines, i) ==
    /\ i + 1 < Len(lines)
    /\ str_lower(At(lines, i + 1)) \in categories
    /\ ~HasNoise(At(lines, i))

\* the lines from the boundary at i up to the next boundary pair
OwnLines(lines, i) ==
    SubSeq(lines, i + 1,
           SetMin({j \in (i + 2)..Len(lines) : j = Len(lines) \/ BoundaryPair(lines, j)}))

\* the candidates of the boundary pairs from line i on, each read from its
\* own lines alone
RECURSIVE OwnCandidates(_, _)
OwnCandidates(lines, i) ==
    IF i + 1 >= Len(lines) THEN <<>>
    ELSE IF BoundaryPair(lines, i)
    THEN scan_step(OwnLines(lines, i), 0, <<>>).products \o OwnCandidates(lines, i + 1)
    ELSE OwnCandidates(lines, i + 1)

\* C29: in pass B every boundary pair yields a candidate of its own, and the
\* field values of a candidate are read only from the lines before the next
\* boundary pair, also when the card is shorter than the forward scan: the
\* candidates are those of the boundary pairs, each read from its own lines.
C29_ScanStopsAtNextCard ==
    (t_pc = "returned" /\ t_pass = "B") => t_products = OwnCandidates(t_lines, 0)

\* the collection of several pages returned a list that is not empty
Collected == r_collected # <<>> /\ r_collected.exc = "" /\ r_collected.value # <<>>

InPassB == t_pc \in {"scan", "raised"} \/ (t_pc = "returned" /\ t_pass = "B")

\* the candidates lie on disjoint spans of at least two lines before i, and i
\* is no index past the end of lines
C31_Inv ==
    InPassB =>
        /\ 2 * Len(t_products) <= t_i
        /\ t_i <= Len(t_lines)
        /\ 2 * Len(t_products) <= Len(t_lines)

\* one turn of the outer loop: it raises out of the function, or it moves i on
\* by one line without a candidate, or it adds one candidate and moves i past
\* the two lines of the pair and the lines i + 2 .. i' - 1 that the inner
\* loop has visited, at most 10 of them, all of them lines that exist
C31_Step ==
    (t_pc = "scan" /\ t_i < Len(t_lines) - 1) =>
        \/ t_pc' = "raised" /\ t_i' = t_i /\ t_products' = t_products
        \/ /\ t_pc' = "scan"
           /\ t_i' > t_i
           /\ IF is_boundary(t_lines, t_i)
              THEN /\ Len(t_products') = Len(t_products) + 1
                   /\ t_i' >= t_i + 2
                   /\ t_i' - (t_i + 2) <= 10
                   /\ t_i' <= Len(t_lines)
              ELSE /\ t_i' = t_i + 1
                   /\ t_products' = t_products

\* C31: the line scan of pass B ends for every blob (it returns, or int()
\* raises out of it); every turn of the outer loop that goes on moves the
\* index i up, by one line when the pair at i is no boundary and by at least
\* two lines when a candidate is built; the inner loop visits at most 10
\* lines for a candidate and none past the last line; and there are at most
\* half as many candidates as lines.
C31_ScanTerminates ==
    /\ <>(t_pc \in {"returned", "raised"})
    /\ [](C31_Inv)
    /\ [][C31_Step]_vars

\* the card of 14 lines: the first turn has built a candidate from the pair
\* at line 0 and stopped after the 10 lines 2 .. 11 (the value 'red' of the
\* label on line 11 is taken from line 12), the next turn has moved on by one
\* line, and the scan has returned
C31_Witness ==
    /\ t_pc = "returned" /\ t_pass = "B"
    /\ t_input.kind = "W"
    /\ Len(t_lines) = 14
    /\ is_boundary(t_lines, 0)
    /\ t_i = 13
    /\ Len(t_products) = 1
    /\ t_result[1].shade = <<"r", "e", "d">>

\* the rows of the table that hold data cells
DataRows(t) == SelectSeq(t.rows, LAMBDA cells : Len(cells) > 0)

\* the record has one entry for each cell, the texts of the cells in order
OneEntryPerCell(item, cells) ==
    /\ Len(item) = Len(cells)
    /\ \A j \in 1..Len(cells) : item[j][2] = str_strip(cells[j])

\* C32: extract_table_to_list loses no cell: it returns one record for each
\* row that holds data cells and none for a row without them, and the record
\* of a row of n cells has exactly n entries, one for each cell, whatever the
\* header list is (repeated names, a header named like col<j>).
C32_NoCellLost ==
    (r_pc \in {"write", "done"} /\ r_table_locator) =>
        LET out == extract_table_to_list(r_page.table)
            data == DataRows(r_page.table)
        IN  /\ Len(out) = Len(data)
            /\ \A i \in 1..Len(data) : OneEntryPerCell(out[i], data[i])

====
